---- MODULE Spec2Model ----
(***************************************************************************)
(* Model of the cMix gateway's client-facing RPC handlers                  *)
(* (src/cmd/gateway.go): proxy forwarding, client registration, message    *)
(* authentication, rate limiting, the round-keyed UnmixedBuffer and the    *)
(* upload of a round's batch to the mix server.                            *)
(*                                                                         *)
(* Each RPC handler is one atomic action.  The variable `call` records the *)
(* last step taken (for a handler: request, response, error, and a trace   *)
(* of the rate-limit charges and MAC computations it made); `sent` is the  *)
(* message that step forwarded to a sibling gateway; `uploaded` is the     *)
(* batch that step streamed to the mix server.                             *)
(***************************************************************************)
EXTENDS Integers, Sequences, FiniteSets, TLC

VARIABLES
    clients,        \* gw.storage client table: user id -> Key (NoKey: absent)
    buckets,        \* gw.messageRateLimiting: bucket key -> tokens
    UnmixedBuffer,  \* gw.UnmixedBuffer: round -> [open, slots]
    mixedMessages,  \* gw.storage mixed-message table: two indices and a count
    uploaded,       \* batch the last step streamed to gw.ServerHost
    uploads,        \* UploadUnmixedBatch calls under way, and the batches streamed
    sent,           \* request the last step forwarded to another gateway
    call,           \* last step: the handler invoked and its result
    crashed,        \* TRUE once a handler panicked
    rounds,         \* gw.storage round table: round id -> row (NoRound: absent)
    bloomFilters,   \* gw.storage bloom filter table: <<recipient, epoch>> -> row
    knownRound,     \* gw.knownRound: the rounds checked so far
    bloomFilterGossip, \* gw.bloomFilterGossip: TRUE while the mutex is held
    outgoingMessages, \* UnmixedMapBuffer.outgoingMessages.Slots
    receivers       \* the gossipBloomFilterReceive calls under way, step by step

filterVars == <<rounds, bloomFilters, knownRound, bloomFilterGossip>>

stepVars == <<outgoingMessages, receivers>>

vars == <<clients, buckets, UnmixedBuffer, mixedMessages, uploaded, uploads, sent, call,
          crashed, filterVars, stepVars>>

-----------------------------------------------------------------------------
(* Bounds of the model *)

\* BatchSize of every round (pb.RoundInfo.BatchSize)
BatchSize == 2

\* greatest number of slots in one PutManyMessages request
MaxMessages == 2

\* the mixed messages the store holds at most
MaxMixed == 3

\* the distinct payloads clients send in SpecShip
MaxPayloads == 3

\* the greatest UpdateId of a round update
MaxUpdateId == 2

\* the greatest round a filter is upserted for
MaxFilterRound == 3

\* the bits of a filter
FilterLen == 2

\* the slots the single-queue buffer holds at most
MaxQueue == 3

\* the greatest minCnt and maxCnt of a PopUnmixedMessages
MaxCount == 2

\* the recipients of a gossip message at most
MaxRecipients == 2

-----------------------------------------------------------------------------
(* Program constants *)

\* the length of an epoch
epochDuration == 2

\* flags.FanOut of the bloom gossip
FanOut == 3

\* RequestKeyThresholdMax / RequestKeyThresholdMix, in minutes
RequestKeyThresholdMax == 3
RequestKeyThresholdMix == -3

\* messageLimitingParams of InitParams
Capacity == 1
LeakedTokens == 1

-----------------------------------------------------------------------------
(* Identifiers and values *)

\* gw.Comms.Id
GatewayID == "gw1"

\* the hosts of gw.Comms' host table, and those of them that are connected
HostTable == {"gw2", "gw3"}
ConnectedHosts == {"gw2"}

\* a nil or zero-length Target
NoTarget == ""

\* a Target that id.Unmarshal rejects
BadTarget == "malformed"

\* every Target value a request may carry: none, self, a connected sibling,
\* a disconnected sibling, a gateway missing from the host table, garbage
AllTargets == {NoTarget, GatewayID, "gw2", "gw3", "gw4", BadTarget}

Users == {"u1", "u2"}
Keys == {"k1", "k2"}
NoKey == "nokey"
Salts == {"s1", "s2"}
Rounds == {1, 2}
IPs == {"ipW", "ipN"}

\* buckets of the message rate limiter that are whitelisted
Whitelisted == {"ipW"}

\* a nil response pointer
Nil == [nil |-> TRUE]

\* a nil error
NoErr == ""

\* nothing forwarded / nothing uploaded
NoSend == [to |-> NoTarget]
NoUpload == [round |-> 0]

\* no UploadUnmixedBatch call under way, no batch streamed yet
NoUploads == [inflight |-> {}, streamed |-> <<>>]

\* the inbound bloom handlers that run side by side, none of them started
Handlers == {1, 2}
IdleReceiver == [pc |-> "idle"]
NoReceivers == [h \in Handlers |-> IdleReceiver]

\* id.Unmarshal succeeds on a well-formed identifier
UnmarshalOK(idBytes) == idBytes # BadTarget

\* pb getter: GetAccepted of a nil or foreign response is false
GetAccepted(resp) == IF "Accepted" \in DOMAIN resp THEN resp.Accepted ELSE FALSE

-----------------------------------------------------------------------------
(* Proxy forwarding: the target check that opens the client-facing RPCs *)

\* a target check that lacks the comparison with the gateway's own id
ProxyRouteNoSelfCheck(hasTarget, target) ==
    IF ~hasTarget THEN "local"
    ELSE IF ~UnmarshalOK(target) THEN "BadTarget"
    ELSE IF target \notin HostTable THEN "NoTarget"
    ELSE IF target \notin ConnectedHosts THEN "NotConnected"
    ELSE "forward"

\* The target check of RequestClientKey, RequestMessages, PutManyMessages and
\* PutMessage.  hasTarget is the handler's outer condition.  The result is
\* "local" (fall through to local processing), "forward", or the error kind.
ProxyRoute(hasTarget, target) ==
    IF ~hasTarget THEN "local"
    ELSE IF ~UnmarshalOK(target) THEN "BadTarget"
    ELSE IF target = GatewayID THEN "local"
    ELSE IF target \notin HostTable THEN "NoTarget"
    ELSE IF target \notin ConnectedHosts THEN "NotConnected"
    ELSE "forward"

\* msg.GetTarget() != nil && len(msg.GetTarget()) > 0
HasTarget(msg) == msg.Target # NoTarget

\* messages.GetMessages()[0].GetTarget() != nil && len(messages.GetTarget()) > 0
PutManyHasTarget(messages) ==
    /\ messages.Messages[1].Target # NoTarget
    /\ messages.Target # NoTarget

\* what the sibling gateway may answer to a forwarded request
RemoteReplies ==
    { [resp |-> [remote |-> "ok"], err |-> NoErr],
      [resp |-> Nil, err |-> "RemoteError"] }

\* return gw.Comms.Send<RPC>(host, msg, sendTimeout)
ForwardResult(reply) == reply

-----------------------------------------------------------------------------
(* Client authentication *)

\* hash.NewCMixHash over the concatenation of the written parts
cMixHash(parts) == <<"cMixHash", parts>>

\* network.GenerateSlotDigest: a digest of the slot and its round
GenerateSlotDigest(msg) == <<"digest", msg.Message, msg.RoundID>>

\* generateClientMac(cl, msg), cl given by its Key
generateClientMac(key, msg) ==
    LET gatewaySlotDigest == GenerateSlotDigest(msg)
        hashed == cMixHash(<<key, msg.Message.Salt>>)
    IN  cMixHash(<<hashed, gatewaySlotDigest>>)

\* gw.storage.GetClient(clientID) finds a client
GetClientOK(clientID) == clientID \in DOMAIN clients /\ clients[clientID] # NoKey

\* a processPutMessage that looks the client up but never compares the MAC
processPutMessageNoMacCheck(message) ==
    IF ~UnmarshalOK(message.Message.SenderID)
    THEN [resp |-> [Accepted |-> FALSE], err |-> "Invalid", macs |-> 0]
    ELSE IF ~GetClientOK(message.Message.SenderID)
    THEN [resp |-> [Accepted |-> FALSE], err |-> "NotFound", macs |-> 0]
    ELSE [resp |-> Nil, err |-> NoErr, macs |-> 1]

\* processPutMessage(message): the response and error it returns, and the
\* number of MACs it computed
processPutMessage(message) ==
    IF ~UnmarshalOK(message.Message.SenderID)
    THEN [resp |-> [Accepted |-> FALSE], err |-> "Invalid", macs |-> 0]
    ELSE IF ~GetClientOK(message.Message.SenderID)
    THEN [resp |-> [Accepted |-> FALSE], err |-> "NotFound", macs |-> 0]
    ELSE IF generateClientMac(clients[message.Message.SenderID], message) # message.MAC
    THEN [resp |-> [Accepted |-> FALSE], err |-> "Unauthenticated", macs |-> 1]
    ELSE [resp |-> Nil, err |-> NoErr, macs |-> 1]

-----------------------------------------------------------------------------
(* Rate limiter (rateLimiting.BucketMap with messageLimitingParams) *)

\* LookupBucket(key).IsWhitelisted()
IsWhitelisted(key) == key \in Whitelisted

\* an Add that takes the tokens whatever the bucket holds
BucketAddUnbounded(tokens, n) == [ok |-> TRUE, tokens |-> tokens + n]

\* LookupBucket(key).Add(n) on a bucket holding `tokens`
BucketAdd(tokens, n) ==
    IF tokens + n <= Capacity
    THEN [ok |-> TRUE, tokens |-> tokens + n]
    ELSE [ok |-> FALSE, tokens |-> tokens]

\* the leak of one LeakDuration
BucketLeak(tokens) == IF tokens > LeakedTokens THEN tokens - LeakedTokens ELSE 0

\* a rejection test that needs only one of the two checks to fail
RateLimitedEither(isWhitelistedIpAddr, idBucketSuccess) ==
    ~isWhitelistedIpAddr \/ ~idBucketSuccess

\* the rejection test of PutMessage and PutManyMessages
RateLimited(isWhitelistedIpAddr, idBucketSuccess) ==
    ~isWhitelistedIpAddr /\ ~idBucketSuccess

-----------------------------------------------------------------------------
(* UnmixedBuffer *)

NoBatch == [open |-> FALSE, slots |-> <<>>]

\* AddUnmixedMessage(slot, round)
AddUnmixedMessage(buf, slot, round) ==
    IF Len(buf[round].slots) = BatchSize
    THEN [err |-> "Overfull", buffer |-> buf]
    ELSE [err |-> NoErr,
          buffer |-> [buf EXCEPT ![round] =
                        [open |-> TRUE, slots |-> Append(buf[round].slots, slot)]]]

\* AddManyUnmixedMessages(slots, round)
AddManyUnmixedMessages(buf, slots, round) ==
    IF Len(buf[round].slots) + Len(slots) > BatchSize
    THEN [err |-> "Overfull", buffer |-> buf]
    ELSE [err |-> NoErr,
          buffer |-> [buf EXCEPT ![round] =
                        [open |-> TRUE, slots |-> buf[round].slots \o slots]]]

\* PopRound(round): the batch (found = FALSE for nil) and the buffer left
PopRound(buf, round) ==
    [found |-> buf[round].open,
     slots |-> buf[round].slots,
     buffer |-> [buf EXCEPT ![round] = NoBatch]]

-----------------------------------------------------------------------------
(* The record of a handler invocation *)

Call(op, req, ip, route, resp, err, charged, macs) ==
    [op |-> op, req |-> req, ip |-> ip, route |-> route,
     resp |-> resp, err |-> err, charged |-> charged, macs |-> macs]

\* the request is sent to the target host and the host's answer is returned;
\* nothing of the gateway's own state is touched
Forward(op, req, ip, target) ==
    \E reply \in RemoteReplies :
        /\ sent' = [to |-> target, rpc |-> op, req |-> req, reply |-> reply]
        /\ uploaded' = NoUpload
        /\ call' = Call(op, req, ip, "forward", ForwardResult(reply).resp,
                        ForwardResult(reply).err, <<>>, 0)
        /\ UNCHANGED <<filterVars, stepVars, clients, buckets, UnmixedBuffer, mixedMessages, uploads, crashed>>

\* the handler returns (resp, err) without touching the gateway's state
Return(op, req, ip, route, resp, err) ==
    /\ sent' = NoSend
    /\ uploaded' = NoUpload
    /\ call' = Call(op, req, ip, route, resp, err, <<>>, 0)
    /\ UNCHANGED <<filterVars, stepVars, clients, buckets, UnmixedBuffer, mixedMessages, uploads, crashed>>

\* the handler dereferences nil: the process panics
Panic(op, req, ip) ==
    /\ sent' = NoSend
    /\ uploaded' = NoUpload
    /\ call' = Call(op, req, ip, "local", Nil, "panic", <<>>, 0)
    /\ crashed' = TRUE
    /\ UNCHANGED <<filterVars, stepVars, clients, buckets, UnmixedBuffer, mixedMessages, uploads>>

-----------------------------------------------------------------------------
(* PutMessage *)

\* a handler that reports success whatever the buffer answered
PutResponseAlwaysAccepted(putErr, roundID) ==
    [resp |-> [Accepted |-> TRUE, RoundID |-> roundID], err |-> NoErr]

\* what PutMessage and PutManyMessages return once the buffer answered
PutResponse(putErr, roundID) ==
    IF putErr # NoErr
    THEN [resp |-> [Accepted |-> FALSE], err |-> putErr]
    ELSE [resp |-> [Accepted |-> TRUE, RoundID |-> roundID], err |-> NoErr]

\* PutMessage after the target check: authentication, rate limiting, append.
\* Yields the response, the error, the buckets and buffer left, the bucket
\* keys charged with Add(1) and the number of MACs computed.
PutMessageLocal(msg, ipAddr) ==
    LET auth == processPutMessage(msg)
        senderId == msg.Message.SenderID
        isWhitelistedIpAddr == IsWhitelisted(ipAddr)
        add == BucketAdd(buckets[senderId], 1)
        charged == [buckets EXCEPT ![senderId] = add.tokens]
        put == AddUnmixedMessage(UnmixedBuffer, msg.Message, msg.RoundID)
    IN  IF auth.err # NoErr
        THEN [resp |-> auth.resp, err |-> auth.err, buckets |-> buckets,
              buffer |-> UnmixedBuffer, charged |-> <<>>, macs |-> auth.macs]
        ELSE IF RateLimited(isWhitelistedIpAddr, add.ok)
        THEN [resp |-> Nil, err |-> "RateLimited", buckets |-> charged,
              buffer |-> UnmixedBuffer, charged |-> <<senderId>>, macs |-> auth.macs]
        ELSE [resp |-> PutResponse(put.err, msg.RoundID).resp,
              err |-> PutResponse(put.err, msg.RoundID).err,
              buckets |-> charged, buffer |-> put.buffer,
              charged |-> <<senderId>>, macs |-> auth.macs]

\* the handler's effect once it processes the request locally
PutLocal(op, req, ipAddr, out) ==
    /\ sent' = NoSend
    /\ uploaded' = NoUpload
    /\ call' = Call(op, req, ipAddr, "local", out.resp, out.err, out.charged, out.macs)
    /\ buckets' = out.buckets
    /\ UnmixedBuffer' = out.buffer
    /\ UNCHANGED <<filterVars, stepVars, clients, mixedMessages, uploads, crashed>>

PutMessage(msg, ipAddr) ==
    /\ ~crashed
    /\ LET route == ProxyRoute(HasTarget(msg), msg.Target)
       IN  IF route = "forward" THEN Forward("PutMessage", msg, ipAddr, msg.Target)
           ELSE IF route # "local" THEN Return("PutMessage", msg, ipAddr, route, Nil, route)
           \* processPutMessage reads message.Message.SenderID of a nil Message
           ELSE IF msg.Message = Nil THEN Panic("PutMessage", msg, ipAddr)
           ELSE PutLocal("PutMessage", msg, ipAddr, PutMessageLocal(msg, ipAddr))

-----------------------------------------------------------------------------
(* PutManyMessages *)

\* the index of the first slot processPutMessage rejects, 0 if none
RECURSIVE FirstRejected(_, _)
FirstRejected(msgs, i) ==
    IF i > Len(msgs) THEN 0
    ELSE IF processPutMessage(msgs[i]).err # NoErr THEN i
    ELSE FirstRejected(msgs, i + 1)

\* does the processPutMessage loop, from slot i on, come to a slot whose
\* Message is nil before it rejects a slot
RECURSIVE ReachesNilMessage(_, _)
ReachesNilMessage(msgs, i) ==
    IF i > Len(msgs) THEN FALSE
    ELSE IF msgs[i].Message = Nil THEN TRUE
    ELSE IF processPutMessage(msgs[i]).err # NoErr THEN FALSE
    ELSE ReachesNilMessage(msgs, i + 1)

\* a hand-over that stops one slot short of the end of the list
BatchSlotsButLast(messages) ==
    [i \in 1..(Len(messages.Messages) - 1) |-> messages.Messages[i].Message]

\* the slots handed to AddManyUnmixedMessages
BatchSlots(messages) == [i \in 1..Len(messages.Messages) |-> messages.Messages[i].Message]

\* PutManyMessages after the target check
PutManyMessagesLocal(messages, ipAddr) ==
    LET first == messages.Messages[1].Message.SenderID
        bad == FirstRejected(messages.Messages, 1)
        nchecked == IF bad = 0 THEN Len(messages.Messages) ELSE bad
        macs == Cardinality({i \in 1..nchecked : processPutMessage(messages.Messages[i]).macs = 1})
        isWhitelistedIpAddr == IsWhitelisted(ipAddr)
        add == BucketAdd(buckets[first], 1)
        charged == [buckets EXCEPT ![first] = add.tokens]
        put == AddManyUnmixedMessages(UnmixedBuffer, BatchSlots(messages), messages.RoundID)
    IN  IF ~UnmarshalOK(first)
        THEN [resp |-> Nil, err |-> "Invalid", buckets |-> buckets,
              buffer |-> UnmixedBuffer, charged |-> <<>>, macs |-> 0]
        ELSE IF bad # 0
        THEN [resp |-> processPutMessage(messages.Messages[bad]).resp,
              err |-> processPutMessage(messages.Messages[bad]).err,
              buckets |-> buckets, buffer |-> UnmixedBuffer, charged |-> <<>>, macs |-> macs]
        ELSE IF RateLimited(isWhitelistedIpAddr, add.ok)
        THEN [resp |-> Nil, err |-> "RateLimited", buckets |-> charged,
              buffer |-> UnmixedBuffer, charged |-> <<first>>, macs |-> macs]
        ELSE [resp |-> PutResponse(put.err, messages.RoundID).resp,
              err |-> PutResponse(put.err, messages.RoundID).err,
              buckets |-> charged, buffer |-> put.buffer,
              charged |-> <<first>>, macs |-> macs]

PutManyMessages(messages, ipAddr) ==
    /\ ~crashed
    /\ IF Len(messages.Messages) = 0
       THEN Return("PutManyMessages", messages, ipAddr, "local", Nil, "Invalid")
       ELSE LET route == ProxyRoute(PutManyHasTarget(messages), messages.Target)
            IN  IF route = "forward"
                THEN Forward("PutManyMessages", messages, ipAddr, messages.Target)
                ELSE IF route # "local"
                THEN Return("PutManyMessages", messages, ipAddr, route, Nil, route)
                \* GetMessage().GetSenderID() of a nil Message is nil
                ELSE IF messages.Messages[1].Message = Nil
                THEN Return("PutManyMessages", messages, ipAddr, route, Nil, "Invalid")
                ELSE IF ReachesNilMessage(messages.Messages, 1)
                THEN Panic("PutManyMessages", messages, ipAddr)
                ELSE PutLocal("PutManyMessages", messages, ipAddr,
                              PutManyMessagesLocal(messages, ipAddr))

-----------------------------------------------------------------------------
(* RequestClientKey *)

\* A SignedClientKeyRequest: Target; whether ClientKeyRequest parses; the
\* RequestTimestamp relative to now, in minutes; the transmission confirmation
\* ("nil", "bad" = unparsable, "ok"); whether RSAPubKey is valid PEM; and the
\* user id that xx.NewID derives from the public key and the salt.
\*
\* env is what the handler's collaborators do during the call: the mix
\* server's answer (serverErr, the ClientGatewayKey it returns, whether its
\* KeyResponse parses), and whether rsa.Sign, xx.NewID, UpsertClient fail.

\* time.Since(requestTime) > RequestKeyThresholdMax ||
\* time.Until(requestTime) < RequestKeyThresholdMix
TimestampRejected(ts) ==
    \/ 0 - ts > RequestKeyThresholdMax
    \/ ts < RequestKeyThresholdMix

\* &pb.SignedKeyResponse{Error: ...}
KeyError(e) == [Error |-> e, ClientGatewayKey |-> NoKey, Signed |-> FALSE]

\* the node's response signed by the gateway, the key left in place
UnclearedKeyResponse(serverKey) ==
    [Error |-> NoErr, ClientGatewayKey |-> serverKey, Signed |-> TRUE]

\* the response returned after the node answered: signed by the gateway,
\* ClientGatewayKey cleared
ClearedKeyResponse(serverKey) ==
    LET resp == [Error |-> NoErr, ClientGatewayKey |-> serverKey, Signed |-> TRUE]
    IN  [resp EXCEPT !.ClientGatewayKey = NoKey]

\* gw.storage.UpsertClient(newClient)
UpsertClient(store, userId, key) == [store EXCEPT ![userId] = key]

\* a RequestClientKey that reports the failure of UpsertClient
upsertReturnReported(upsertErr) == IF upsertErr THEN "Storage" ELSE NoErr

\* the error returned after UpsertClient: nil, whether or not it failed
upsertReturn(upsertErr) == NoErr

RequestClientKey(msg, env) ==
    /\ ~crashed
    /\ LET route == ProxyRoute(HasTarget(msg), msg.Target)
           op == "RequestClientKey"
       IN  IF route = "forward" THEN Forward(op, msg, "", msg.Target)
           ELSE IF route # "local" THEN Return(op, msg, "", route, Nil, route)
           ELSE IF ~msg.parse THEN Return(op, msg, "", route, Nil, "Invalid")
           \* errors.WithMessagef(nil, ...) is nil: errMsg.Error() panics
           ELSE IF TimestampRejected(msg.ts) THEN Panic(op, msg, "")
           ELSE IF env.serverErr THEN Return(op, msg, "", route, KeyError("Backend"), "Backend")
           ELSE IF env.signErr THEN Return(op, msg, "", route, KeyError("Internal"), "Internal")
           ELSE IF ~env.respOK THEN Return(op, msg, "", route, KeyError("Invalid"), "Invalid")
           \* request.ClientTransmissionConfirmation is dereferenced unchecked
           ELSE IF msg.conf = "nil" THEN Panic(op, msg, "")
           ELSE IF msg.conf = "bad" THEN Return(op, msg, "", route, KeyError("Invalid"), "Invalid")
           ELSE IF ~msg.pub THEN Return(op, msg, "", route, KeyError("Invalid"), "Invalid")
           ELSE IF env.idErr THEN Return(op, msg, "", route, KeyError("Internal"), "Internal")
           ELSE /\ sent' = NoSend
                /\ uploaded' = NoUpload
                /\ call' = Call(op, msg, "", route, ClearedKeyResponse(env.key),
                                upsertReturn(env.upsertErr), <<>>, 0)
                /\ clients' = IF env.upsertErr THEN clients
                              ELSE UpsertClient(clients, msg.user, env.key)
                /\ UNCHANGED <<filterVars, stepVars, buckets, UnmixedBuffer, mixedMessages, uploads, crashed>>

-----------------------------------------------------------------------------
(* RequestMessages *)

\* a nil ClientID, and a ClientID that ephemeral.Marshal rejects
NilClientID == [nil |-> TRUE]
BadClientID == [malformed |-> TRUE]

\* MixedMessage.GetMessageContents: MessageContents cut in two halves
GetMessageContents(m) ==
    LET half == Len(m.MessageContents) \div 2
    IN  [PayloadA |-> SubSeq(m.MessageContents, 1, half),
         PayloadB |-> SubSeq(m.MessageContents, half + 1, Len(m.MessageContents))]

\* the rows of `rows` in the order of their Id
RECURSIVE ById(_)
ById(rows) ==
    IF rows = {} THEN <<>>
    ELSE LET first == CHOOSE m \in rows : \A n \in rows : m.Id <= n.Id
         IN  <<first>> \o ById(rows \ {first})

\* countMixedMessagesByRound(roundId): the count kept for the round
countMixedMessagesByRound(roundId) ==
    IF roundId \in DOMAIN mixedMessages.RoundIdCount
    THEN mixedMessages.RoundIdCount[roundId] ELSE 0

\* getMixedMessages(recipientId, roundId): the recipient-first index
getMixedMessages(recipientId, roundId) ==
    {m \in mixedMessages.RecipientId :
        m.RecipientId = recipientId /\ m.RoundId = roundId}

\* a GetMixedMessages whose flag tells whether the recipient has messages
GetMixedMessagesByRecipient(recipientId, roundId) ==
    LET msgs == getMixedMessages(recipientId, roundId)
    IN  [msgs |-> msgs, isValidGateway |-> msgs # {}, err |-> NoErr]

\* Storage.GetMixedMessages(recipientId, roundId): countMixedMessagesByRound,
\* then getMixedMessages, which fails when the recipient has none
GetMixedMessages(recipientId, roundId) ==
    LET count == countMixedMessagesByRound(roundId)
        msgs == getMixedMessages(recipientId, roundId)
    IN  IF ~(count > 0) THEN [msgs |-> {}, isValidGateway |-> FALSE, err |-> NoErr]
        ELSE IF msgs = {} THEN [msgs |-> {}, isValidGateway |-> TRUE, err |-> "NotFound"]
        ELSE [msgs |-> msgs, isValidGateway |-> TRUE, err |-> NoErr]

\* RequestMessages after the target check
RequestMessagesLocal(req) ==
    LET got == GetMixedMessages(req.ClientID, req.RoundID)
    IN  IF req.ClientID = BadClientID
        THEN [resp |-> [Messages |-> <<>>, HasRound |-> FALSE], err |-> "Invalid"]
        ELSE IF got.err # NoErr
        THEN [resp |-> [Messages |-> <<>>, HasRound |-> got.isValidGateway], err |-> got.err]
        ELSE [resp |-> [Messages |-> [i \in 1..Len(ById(got.msgs)) |->
                                         GetMessageContents(ById(got.msgs)[i])],
                        HasRound |-> got.isValidGateway],
              err |-> NoErr]

RequestMessages(req) ==
    /\ ~crashed
    /\ LET op == "RequestMessages"
           route == ProxyRoute(HasTarget(req), req.Target)
       IN  IF req.ClientID = NilClientID \/ req.RoundID = 0
           THEN Return(op, req, "", "local", [Messages |-> <<>>, HasRound |-> FALSE], "Invalid")
           ELSE IF route = "forward" THEN Forward(op, req, "", req.Target)
           ELSE IF route # "local" THEN Return(op, req, "", route, Nil, route)
           ELSE Return(op, req, "", route, RequestMessagesLocal(req).resp,
                       RequestMessagesLocal(req).err)

-----------------------------------------------------------------------------
(* RequestHistoricalRounds *)

\* a nil Rounds list
NilRounds == <<-1>>

\* retrieved is what gw.storage.RetrieveMany finds (FALSE: it fails)
RequestHistoricalRounds(msg, retrieved) ==
    /\ ~crashed
    /\ LET op == "RequestHistoricalRounds"
       IN  IF msg.Rounds = NilRounds
           THEN Return(op, msg, "", "local", [Rounds |-> <<>>], "Invalid")
           ELSE IF ~retrieved
           THEN Return(op, msg, "", "local", [Rounds |-> <<>>], "Backend")
           ELSE Return(op, msg, "", "local", [Rounds |-> msg.Rounds], NoErr)

-----------------------------------------------------------------------------
(* UploadUnmixedBatch *)

\* roundInfo.Topology of every round
Topology == <<"n1", "n2">>

\* the times time.Now() may return, counted in ephemeral-id periods
Times == {1, 2}

\* ephemeral.GetId(&id.DummyUser, 64, now)
DummyEphId(now) == <<"eph", "DummyUser", now>>

\* GenJunkMsg(grp, numNodes, msgNum, roundID) called at time now.  The
\* payload is the encryption, under numNodes copies of the dummy base key,
\* the salt and the round, of a message that holds msgNum + 1, the dummy
\* user's ephemeral id and the zeroed identity fingerprint.
GenJunkMsg(numNodes, msgNum, roundID, now) ==
    [SenderID |-> "DummyUser",
     Salt |-> "salt01",
     PayloadA |-> <<"ClientEncrypt", msgNum + 1, DummyEphId(now), "dummyIdFp",
                    numNodes, roundID>>]

\* a junk fill whose message numbers count from one
JunkFillFromOne(k, batchSize, numNodes, rid, now) ==
    [j \in 1..(IF batchSize > k THEN batchSize - k ELSE 0) |->
        GenJunkMsg(numNodes, k + j, rid, now[k + j - 1])]

\* the junk appended to a batch holding k slots: one GenJunkMsg(.., i, rid) for
\* each i from k up to batchSize - 1; now[i] is the time of that call
JunkFill(k, batchSize, numNodes, rid, now) ==
    [j \in 1..(IF batchSize > k THEN batchSize - k ELSE 0) |->
        GenJunkMsg(numNodes, k + j - 1, rid, now[k + j - 1])]

UploadUnmixedBatch(roundInfo, now) ==
    /\ ~crashed
    /\ LET op == "UploadUnmixedBatch"
           batchSize == roundInfo.BatchSize
           rid == roundInfo.ID
           batch == PopRound(UnmixedBuffer, rid)
           numNodes == Len(roundInfo.Topology)
       IN  IF batchSize = 0 THEN Return(op, roundInfo, "", "local", Nil, NoErr)
           ELSE /\ sent' = NoSend
                /\ call' = Call(op, roundInfo, "", "local", Nil, NoErr, <<>>, 0)
                /\ UnmixedBuffer' = batch.buffer
                /\ uploaded' =
                     IF ~batch.found THEN NoUpload
                     ELSE [round |-> rid,
                           header |-> [BatchSize |-> batchSize, Round |-> roundInfo],
                           slots |-> batch.slots \o
                                     JunkFill(Len(batch.slots), batchSize, numNodes, rid, now)]
                /\ UNCHANGED <<filterVars, stepVars, clients, buckets, mixedMessages, uploads, crashed>>

\* UploadUnmixedBatch up to the PopRound: the call holds the popped batch
\* while other handlers run
UploadPopRound(roundInfo) ==
    /\ ~crashed
    /\ LET op == "UploadUnmixedBatch.PopRound"
           batchSize == roundInfo.BatchSize
           rid == roundInfo.ID
           batch == PopRound(UnmixedBuffer, rid)
       IN  IF batchSize = 0 THEN Return(op, roundInfo, "", "local", Nil, NoErr)
           ELSE /\ sent' = NoSend
                /\ uploaded' = NoUpload
                /\ call' = Call(op, roundInfo, "", "local", Nil, NoErr, <<>>, 0)
                /\ UnmixedBuffer' = batch.buffer
                /\ uploads' =
                     IF ~batch.found THEN uploads
                     ELSE [uploads EXCEPT !.inflight =
                              @ \cup {[roundInfo |-> roundInfo, slots |-> batch.slots]}]
                /\ UNCHANGED <<filterVars, stepVars, clients, buckets, mixedMessages, crashed>>

\* an upload that streams its batch and can stream it again
UploadSendAgain(upload, now) ==
    /\ ~crashed
    /\ upload \in uploads.inflight
    /\ LET roundInfo == upload.roundInfo
           batchSize == roundInfo.BatchSize
           rid == roundInfo.ID
           numNodes == Len(roundInfo.Topology)
           slots == upload.slots \o JunkFill(Len(upload.slots), batchSize, numNodes, rid, now)
       IN  /\ sent' = NoSend
           /\ call' = Call("UploadUnmixedBatch.Send", roundInfo, "", "local", Nil, NoErr, <<>>, 0)
           /\ uploaded' = [round |-> rid,
                           header |-> [BatchSize |-> batchSize, Round |-> roundInfo],
                           slots |-> slots]
           /\ uploads' = [inflight |-> uploads.inflight,
                          streamed |-> Append(uploads.streamed, slots)]
           /\ UNCHANGED <<filterVars, stepVars, clients, buckets, UnmixedBuffer, mixedMessages, crashed>>

\* the rest of an UploadUnmixedBatch call that popped a batch: the junk fill
\* and the upload
UploadSend(upload, now) ==
    /\ ~crashed
    /\ upload \in uploads.inflight
    /\ LET roundInfo == upload.roundInfo
           batchSize == roundInfo.BatchSize
           rid == roundInfo.ID
           numNodes == Len(roundInfo.Topology)
           slots == upload.slots \o JunkFill(Len(upload.slots), batchSize, numNodes, rid, now)
       IN  /\ sent' = NoSend
           /\ call' = Call("UploadUnmixedBatch.Send", roundInfo, "", "local", Nil, NoErr, <<>>, 0)
           /\ uploaded' = [round |-> rid,
                           header |-> [BatchSize |-> batchSize, Round |-> roundInfo],
                           slots |-> slots]
           /\ uploads' = [inflight |-> uploads.inflight \ {upload},
                          streamed |-> Append(uploads.streamed, slots)]
           /\ UNCHANGED <<filterVars, stepVars, clients, buckets, UnmixedBuffer, mixedMessages, crashed>>

-----------------------------------------------------------------------------
(* ProcessCompletedBatch *)

\* the zeroed identity fingerprint
dummyIdFp == "dummyIdFp"

\* A slot out of the mixnet: PayloadA and PayloadB have the same length, and
\* the message they form holds the ephemeral recipient id and the identity
\* fingerprint at the end of PayloadB.
MixedSlot(contents, ephRID, idFp) ==
    [PayloadA |-> <<"keyFP", contents>>, PayloadB |-> <<ephRID, idFp>>]
GetEphemeralRID(msg) == msg.PayloadB[1]
GetIdentityFP(msg) == msg.PayloadB[2]

\* ephemeral.Marshal of the eight bytes GetEphemeralRID returns; an
\* ephemeral.Id is the record of its Int64()
Marshal(ridBytes) == [Int64 |-> ridBytes]

\* 2^n
RECURSIVE Pow2(_)
Pow2(n) == IF n = 0 THEN 1 ELSE 2 * Pow2(n - 1)

\* Id.Clear(size): the low `size` bits of the id are masked to zero
Clear(eid, size) == [Int64 |-> (eid.Int64 \div Pow2(size)) * Pow2(size)]

\* storage.NewMixedMessage: Id 0, the payloads concatenated
NewMixedMessage(roundId, recipientId, messageContentsA, messageContentsB) ==
    [MessageContents |-> messageContentsA \o messageContentsB, Id |-> 0,
     RecipientId |-> recipientId, RoundId |-> roundId]

\* a pass that treats a dummy like any other message
processMessageKeepingDummies(acc, msg, roundID, round) ==
    LET recipientId == Clear(Marshal(GetEphemeralRID(msg)), round.AddressSpaceSize)
    IN  [recipients |-> IF recipientId.Int64 # 0
                        THEN acc.recipients \cup {recipientId}
                        ELSE acc.recipients,
         clientRound |->
             [acc.clientRound EXCEPT !.Messages =
                 Append(@, NewMixedMessage(roundID, recipientId,
                                           msg.PayloadA, msg.PayloadB))],
         notifications |->
             [acc.notifications EXCEPT !.Notifications =
                 Append(@, [EphemeralID |-> recipientId.Int64,
                            IdentityFP |-> GetIdentityFP(msg),
                            MessageHash |-> <<"hash", msg.PayloadA, msg.PayloadB>>])]]

\* a pass that adds every cleared recipient to the recipients
processMessageAnyRecipient(acc, msg, roundID, round) ==
    LET recipientId == Clear(Marshal(GetEphemeralRID(msg)), round.AddressSpaceSize)
    IN  IF GetIdentityFP(msg) = dummyIdFp THEN acc
        ELSE [recipients |-> acc.recipients \cup {recipientId},
              clientRound |->
                  [acc.clientRound EXCEPT !.Messages =
                      Append(@, NewMixedMessage(roundID, recipientId,
                                                msg.PayloadA, msg.PayloadB))],
              notifications |->
                  [acc.notifications EXCEPT !.Notifications =
                      Append(@, [EphemeralID |-> recipientId.Int64,
                                 IdentityFP |-> GetIdentityFP(msg),
                                 MessageHash |-> <<"hash", msg.PayloadA, msg.PayloadB>>])]]

\* one pass of the loop of processMessages over msg
processMessage(acc, msg, roundID, round) ==
    LET recipientId == Clear(Marshal(GetEphemeralRID(msg)), round.AddressSpaceSize)
    IN  IF GetIdentityFP(msg) = dummyIdFp THEN acc
        ELSE [recipients |-> IF recipientId.Int64 # 0
                             THEN acc.recipients \cup {recipientId}
                             ELSE acc.recipients,
              clientRound |->
                  [acc.clientRound EXCEPT !.Messages =
                      Append(@, NewMixedMessage(roundID, recipientId,
                                                msg.PayloadA, msg.PayloadB))],
              notifications |->
                  [acc.notifications EXCEPT !.Notifications =
                      Append(@, [EphemeralID |-> recipientId.Int64,
                                 IdentityFP |-> GetIdentityFP(msg),
                                 MessageHash |-> <<"hash", msg.PayloadA, msg.PayloadB>>])]]

\* processMessages(msgs, roundID, round): the recipients, the ClientRound and
\* the NotificationBatch
RECURSIVE processMessagesFrom(_, _, _, _)
processMessagesFrom(acc, msgs, roundID, round) ==
    IF msgs = <<>> THEN acc
    ELSE processMessagesFrom(processMessage(acc, Head(msgs), roundID, round),
                             Tail(msgs), roundID, round)
processMessages(msgs, roundID, round) ==
    processMessagesFrom(
        [recipients |-> {},
         clientRound |-> [Id |-> roundID, Timestamp |-> round.Timestamp, Messages |-> <<>>],
         notifications |-> [RoundID |-> roundID, Notifications |-> <<>>]],
        msgs, roundID, round)

\* the mixed-message table of a new store: the round-first index, the
\* recipient-first index, the per-round count and the next message id
NoMixedMessages ==
    [RoundId |-> {}, RecipientId |-> {}, RoundIdCount |-> [r \in Rounds |-> 0],
     IdTrack |-> 0]

\* the key of a message inside either index
Triple(m) == <<m.RoundId, m.RecipientId, m.Id>>

\* an insertOne that forgets the recipient-first index
insertOneRoundFirst(store, msg) ==
    [RoundId |-> store.RoundId \cup {[msg EXCEPT !.Id = store.IdTrack]},
     RecipientId |-> store.RecipientId,
     RoundIdCount |-> [store.RoundIdCount EXCEPT ![msg.RoundId] = @ + 1],
     IdTrack |-> store.IdTrack + 1]

\* one message goes into the table under the next id
insertOne(store, msg) ==
    LET row == [msg EXCEPT !.Id = store.IdTrack]
    IN  [RoundId |-> store.RoundId \cup {row},
         RecipientId |-> store.RecipientId \cup {row},
         RoundIdCount |-> [store.RoundIdCount EXCEPT ![msg.RoundId] = @ + 1],
         IdTrack |-> store.IdTrack + 1]

\* the messages go in one after the other until one is already there
RECURSIVE insertFrom(_, _, _)
insertFrom(store, messages, i) ==
    IF i > Len(messages) THEN [store |-> store, err |-> NoErr]
    ELSE IF \E m \in store.RoundId : Triple(m) = Triple(messages[i])
         THEN [store |-> store, err |-> "AlreadyExists"]
         ELSE insertFrom(insertOne(store, messages[i]), messages, i + 1)

\* an InsertMixedMessages that keeps what went in before the failure
InsertMixedMessagesPartial(store, messages) == insertFrom(store, messages, 1)

\* InsertMixedMessages(messages): all of the group or none of it
InsertMixedMessages(store, messages) ==
    LET done == insertFrom(store, messages, 1)
    IN  IF done.err = NoErr THEN done ELSE [store |-> store, err |-> done.err]

\* what a ProcessCompletedBatch call did besides storing: the goroutines it
\* started with their arguments, and the batch sent to the notification bot
NoEffects == [recipients |-> {}, clientRound |-> Nil, GossipBloom |-> Nil,
              UpsertFilters |-> Nil, SendNotificationBatch |-> Nil, logs |-> {}]

\* the test the two goroutines make before they log a failure: it is on
\* err, the error of GetRound, and not on the error of their own call
taskFailed(err, errTask) == err # NoErr

\* the failure logs of the two goroutines: GetRound failed exactly when it
\* found no round
taskLogs(env) ==
    LET err == IF env.round = "nil" THEN "GetRound" ELSE NoErr
    IN  {[task |-> "GossipBloom", err |-> env.errGossip] :
            x \in {y \in {1} : taskFailed(err, env.errGossip)}}
        \cup {[task |-> "UpsertFilters", err |-> env.errFilters] :
                x \in {y \in {1} : taskFailed(err, env.errFilters)}}

\* a ProcessCompletedBatch that starts the gossip only when the insert worked
StartedAfterInsert(disabled, insertErr) == ~disabled /\ ~insertErr

\* a ProcessCompletedBatch that starts the gossip whatever the parameters say
StartedAlways(disabled, insertErr) == TRUE

\* are GossipBloom and UpsertFilters started
Started(disabled, insertErr) == ~disabled

\* a ProcessCompletedBatch that goes on with the round of a timed-out wait
WaitFailedNever(roundEvent) == FALSE

\* does the wait for the round fail
WaitFailed(roundEvent) == roundEvent.TimedOut \/ ~roundEvent.RoundInfo

\* env is what the collaborators do during the call: the round GetRound finds
\* ("nil", "early" for a state before QUEUED, "ready"), the event the wait
\* delivers, the round's AddressSpaceSize and Timestamps[QUEUED],
\* Params.DisableGossip, whether the NDF names a notification bot, whether
\* its host is known, whether InsertMixedMessages fails, the errors
\* GossipBloom and UpsertFilters return in their goroutines
ProcessCompletedBatch(msgs, roundID, env) ==
    /\ ~crashed
    /\ mixedMessages.IdTrack + Len(msgs) <= MaxMixed
    /\ LET op == "ProcessCompletedBatch"
           req == [msgs |-> msgs, roundID |-> roundID, env |-> env]
           round == [AddressSpaceSize |-> env.AddressSpaceSize, Timestamp |-> env.Timestamp]
           out == processMessages(msgs, roundID, round)
           wait == env.round # "ready"
       IN  IF Len(msgs) = 0 THEN Return(op, req, "", "local", NoEffects, NoErr)
           ELSE IF wait /\ WaitFailed(env.roundEvent)
           THEN Return(op, req, "", "local", NoEffects, "Timeout")
           ELSE /\ sent' = NoSend
                /\ uploaded' = NoUpload
                /\ mixedMessages' =
                     IF env.insertErr THEN mixedMessages
                     ELSE InsertMixedMessages(mixedMessages, out.clientRound.Messages).store
                /\ call' = Call(op, req, "", "local",
                     [recipients |-> out.recipients,
                      clientRound |-> out.clientRound,
                      GossipBloom |->
                          IF Started(env.DisableGossip, env.insertErr)
                          THEN [recipients |-> out.recipients, roundID |-> roundID,
                                Timestamp |-> round.Timestamp]
                          ELSE Nil,
                      UpsertFilters |->
                          IF Started(env.DisableGossip, env.insertErr)
                          THEN [recipients |-> out.recipients, roundID |-> roundID]
                          ELSE Nil,
                      SendNotificationBatch |->
                          IF env.NotificationAddress /\ env.botHost
                          THEN out.notifications ELSE Nil,
                      logs |->
                          IF Started(env.DisableGossip, env.insertErr)
                          THEN taskLogs(env) ELSE {}],
                     NoErr, <<>>, 0)
                /\ UNCHANGED <<filterVars, stepVars, clients, buckets, UnmixedBuffer, uploads, crashed>>

\* a deleteByRound that leaves the count of the round
deleteByRoundKeepingCount(store, roundId) ==
    [RoundId |-> {m \in store.RoundId : m.RoundId # roundId},
     RecipientId |-> {m \in store.RecipientId : m.RoundId # roundId},
     RoundIdCount |-> store.RoundIdCount,
     IdTrack |-> store.IdTrack]

\* the table without the messages of a round
deleteByRound(store, roundId) ==
    [RoundId |-> {m \in store.RoundId : m.RoundId # roundId},
     RecipientId |-> {m \in store.RecipientId : m.RoundId # roundId},
     RoundIdCount |-> [store.RoundIdCount EXCEPT ![roundId] = 0],
     IdTrack |-> store.IdTrack]

\* DeleteMixedMessageByRound(roundId)
DeleteMixedMessageByRound(roundId) ==
    /\ ~crashed
    /\ sent' = NoSend
    /\ uploaded' = NoUpload
    /\ call' = Call("DeleteMixedMessageByRound", roundId, "", "local", Nil, NoErr, <<>>, 0)
    /\ mixedMessages' = deleteByRound(mixedMessages, roundId)
    /\ UNCHANGED <<filterVars, stepVars, clients, buckets, UnmixedBuffer, uploads, crashed>>

\* InsertMixedMessages(messages) called on the store
StoreInsertMixedMessages(messages) ==
    /\ ~crashed
    /\ mixedMessages.IdTrack + Len(messages) <= MaxMixed
    /\ LET done == InsertMixedMessages(mixedMessages, messages)
       IN  /\ mixedMessages' = done.store
           /\ call' = Call("InsertMixedMessages", messages, "", "local", Nil, done.err, <<>>, 0)
    /\ sent' = NoSend
    /\ uploaded' = NoUpload
    /\ UNCHANGED <<filterVars, stepVars, clients, buckets, UnmixedBuffer, uploads, crashed>>

-----------------------------------------------------------------------------
(* The round table of the store *)

\* no row for the round
NoRound == [absent |-> TRUE]

\* a Round row
Round(roundId, updateId, state) == [Id |-> roundId, UpdateId |-> updateId, State |-> state]

\* an UpsertRound that also takes an update as old as the stored one
ReplacesOnEqual(stored, round) == stored = NoRound \/ round.UpdateId >= stored.UpdateId

\* does UpsertRound write the round over what is stored
Replaces(stored, round) == stored = NoRound \/ round.UpdateId > stored.UpdateId

\* UpsertRound(round)
UpsertRound(round) ==
    /\ ~crashed
    /\ rounds' = IF Replaces(rounds[round.Id], round)
                 THEN [rounds EXCEPT ![round.Id] = round] ELSE rounds
    /\ call' = Call("UpsertRound", round, "", "local", Nil, NoErr, <<>>, 0)
    /\ sent' = NoSend
    /\ uploaded' = NoUpload
    /\ UNCHANGED <<stepVars, clients, buckets, UnmixedBuffer, mixedMessages, uploads, crashed,
                   bloomFilters, knownRound, bloomFilterGossip>>

-----------------------------------------------------------------------------
(* The bloom filter table of the store *)

\* the table of a new store: no ClientBloomFilter row
NoFilters == {}

\* an Or that keeps the first slice
OrFirst(l1, l2) == IF l1 = <<>> THEN l2 ELSE l1

\* Or(l1, l2): the bitwise OR of two slices, nil being <<>>; l1 when the
\* lengths differ
Or(l1, l2) ==
    IF l1 = <<>> THEN l2
    ELSE IF l2 = <<>> THEN l1
    ELSE IF Len(l1) # Len(l2) THEN l1
    ELSE [i \in 1..Len(l1) |-> IF l1[i] = 1 \/ l2[i] = 1 THEN 1 ELSE 0]

\* the rows stored for a recipient and an epoch: one at most
FiltersOf(store, recipientId, epoch) ==
    {row \in store : row.RecipientId = recipientId /\ row.Epoch = epoch}

\* the last round of a filter
lastRound(filter) == filter.FirstRound + filter.RoundRange

\* a combine that keeps the stored interval of rounds
combineKeepingRounds(old, filter) ==
    [RecipientId |-> old.RecipientId, Epoch |-> old.Epoch,
     FirstRound |-> old.FirstRound, RoundRange |-> old.RoundRange,
     Filter |-> Or(old.Filter, filter.Filter)]

\* the stored row merged with an upserted one: Filter is the OR of both,
\* FirstRound the lesser one, RoundRange reaches the later last round
combine(old, filter) ==
    LET first == IF filter.FirstRound < old.FirstRound
                 THEN filter.FirstRound ELSE old.FirstRound
        last == IF lastRound(filter) > lastRound(old)
                THEN lastRound(filter) ELSE lastRound(old)
    IN  [RecipientId |-> old.RecipientId, Epoch |-> old.Epoch,
         FirstRound |-> first, RoundRange |-> last - first,
         Filter |-> Or(old.Filter, filter.Filter)]

\* upsertClientBloomFilter(filter)
upsertClientBloomFilter(store, filter) ==
    LET old == FiltersOf(store, filter.RecipientId, filter.Epoch)
    IN  IF old = {} THEN store \cup {filter}
        ELSE (store \ old) \cup {combine(row, filter) : row \in old}

\* the ClientBloomFilter HandleBloomFilter builds
validFilter(recipientId, filterBytes, roundId, epoch) ==
    [RecipientId |-> recipientId.Int64, Epoch |-> epoch, FirstRound |-> roundId,
     RoundRange |-> 0, Filter |-> filterBytes]

\* Storage.HandleBloomFilter(recipientId, filterBytes, roundId, epoch)
HandleBloomFilter(recipientId, filterBytes, roundId, epoch) ==
    /\ ~crashed
    /\ bloomFilters' = upsertClientBloomFilter(bloomFilters,
                            validFilter(recipientId, filterBytes, roundId, epoch))
    /\ call' = Call("HandleBloomFilter",
                    [recipientId |-> recipientId, filterBytes |-> filterBytes,
                     roundId |-> roundId, epoch |-> epoch],
                    "", "local", Nil, NoErr, <<>>, 0)
    /\ sent' = NoSend
    /\ uploaded' = NoUpload
    /\ UNCHANGED <<stepVars, clients, buckets, UnmixedBuffer, mixedMessages, uploads, crashed,
                   rounds, knownRound, bloomFilterGossip>>

-----------------------------------------------------------------------------
(* Gossip of bloom filters *)

\* an id.ID: its bytes and its type
ID(bytes, type) == [bytes |-> bytes, type |-> type]

\* gw.Comms.Id
GatewayOrigin == ID("gwA", "gateway")

\* id.SetType
SetType(i, type) == [i EXCEPT !.type = type]

\* a marshalled pb.Recipients, and a payload that does not unmarshal
Recipients(roundID, recipientIds) ==
    [RoundID |-> roundID, ok |-> TRUE, RecipientIds |-> recipientIds]
BadPayload == [ok |-> FALSE]

\* buildGossipSignature: the signer and what was signed
Signature(signer, tag, origin, payload) ==
    [signer |-> signer, Tag |-> tag, Origin |-> origin, Payload |-> payload]

\* the place of a node in a circuit, -1 when it is not there
GetNodeLocation(idList, node) ==
    IF \E i \in 1..Len(idList) : idList[i] = node
    THEN CHOOSE i \in 1..Len(idList) : idList[i] = node
    ELSE -1

\* a verifyBloom that looks for the origin as it came
verifyBloomUntyped(msg, origin, instance) ==
    IF ~msg.Payload.ok THEN "Unmarshal"
    ELSE IF instance[msg.Payload.RoundID] = NoRound THEN "UnknownRound"
    ELSE IF ~instance[msg.Payload.RoundID].Topology.ok THEN "Topology"
    ELSE IF GetNodeLocation(instance[msg.Payload.RoundID].Topology.ids, origin) < 0
         THEN "NotInRound"
         ELSE NoErr

\* verifyBloom(msg, origin, instance)
verifyBloom(msg, origin, instance) ==
    IF ~msg.Payload.ok THEN "Unmarshal"
    ELSE IF instance[msg.Payload.RoundID] = NoRound THEN "UnknownRound"
    ELSE IF ~instance[msg.Payload.RoundID].Topology.ok THEN "Topology"
    ELSE IF GetNodeLocation(instance[msg.Payload.RoundID].Topology.ids,
                            SetType(origin, "node")) < 0
         THEN "NotInRound"
         ELSE NoErr

\* gossipVerify(msg): the signature is checked with the key of the origin,
\* then the round of a bloom message
gossipVerify(msg, instance) ==
    /\ ~crashed
    /\ LET op == "gossipVerify"
           req == [msg |-> msg, instance |-> instance]
       IN  IF msg.Signature # Signature(msg.Origin, msg.Tag, msg.Origin, msg.Payload)
           THEN Return(op, req, "", "local", Nil, "Signature")
           ELSE IF msg.Tag = "Bloom"
           THEN Return(op, req, "", "local", Nil, verifyBloom(msg, msg.Origin, instance))
           ELSE Return(op, req, "", "local", Nil, NoErr)

\* the epoch of a timestamp
GetEpoch(timestamp) == timestamp \div epochDuration

\* the filter bits computed for a round: the bit of the round is set
FilterBits(roundID) == [i \in 1..FilterLen |-> IF i = roundID THEN 1 ELSE 0]

\* UpsertFilter(recipientId, roundID): the table afterwards and the error;
\* the round comes from the network instance, dbFails is a failing store
UpsertFilter(store, recipientId, roundID, instance, dbFails) ==
    IF instance[roundID] = NoRound THEN [store |-> store, err |-> "UnknownRound"]
    ELSE IF dbFails THEN [store |-> store, err |-> "Storage"]
    ELSE [store |-> upsertClientBloomFilter(store,
                        validFilter(recipientId, FilterBits(roundID), roundID,
                                    GetEpoch(instance[roundID].Timestamp))),
          err |-> NoErr]

\* the goroutines of gossipBloomFilterReceive, one for each recipient from
\* the i-th on: the table they leave, how many failed in UpsertFilter and
\* how many returned before wg.Done because the id did not unmarshal
RECURSIVE upsertFrom(_, _, _, _, _, _)
upsertFrom(acc, recipientIds, roundID, instance, fails, i) ==
    IF i > Len(recipientIds) THEN acc
    ELSE IF ~recipientIds[i].ok
    THEN upsertFrom([acc EXCEPT !.notDone = @ + 1],
                    recipientIds, roundID, instance, fails, i + 1)
    ELSE LET done == UpsertFilter(acc.store, [Int64 |-> recipientIds[i].Int64], roundID,
                                  instance, i \in fails)
         IN  upsertFrom([store |-> done.store,
                         failed |-> acc.failed + (IF done.err = NoErr THEN 0 ELSE 1),
                         notDone |-> acc.notDone],
                        recipientIds, roundID, instance, fails, i + 1)

\* a receive that reports no error of the goroutines
errReturnNever(nErrs) == NoErr

\* the error returned for the errors the goroutines appended
errReturn(nErrs) == IF nErrs > 0 THEN "Upsert" ELSE NoErr

\* gossipBloomFilterReceive(msg): instance is the network instance, fails
\* the recipients for which the store fails. A recipient that does not
\* unmarshal leaves wg.Wait waiting for ever: the handler does not return
\* (route "blocked"). Two goroutines appending to errs race: an append may
\* be lost or the process may crash.
gossipBloomFilterReceive(msg, instance, fails) ==
    /\ ~crashed
    /\ ~bloomFilterGossip
    /\ sent' = NoSend
    /\ uploaded' = NoUpload
    /\ UNCHANGED <<stepVars, clients, buckets, UnmixedBuffer, mixedMessages, uploads, rounds>>
    /\ LET op == "gossipBloomFilterReceive"
           req == [msg |-> msg, instance |-> instance, fails |-> fails]
       IN  IF ~msg.Payload.ok
           THEN /\ bloomFilterGossip' = TRUE
                /\ call' = Call(op, req, "", "local", Nil, "Unmarshal", <<>>, 0)
                /\ UNCHANGED <<bloomFilters, knownRound, crashed>>
           ELSE LET roundID == msg.Payload.RoundID
                    out == upsertFrom([store |-> bloomFilters, failed |-> 0, notDone |-> 0],
                                      msg.Payload.RecipientIds, roundID, instance, fails, 1)
                IN  /\ bloomFilters' = out.store
                    /\ IF out.notDone > 0
                       THEN /\ bloomFilterGossip' = TRUE
                            /\ call' = Call(op, req, "", "blocked", Nil, NoErr, <<>>, 0)
                            /\ UNCHANGED <<knownRound, crashed>>
                       ELSE \E race \in (IF out.failed >= 2 THEN {"none", "lost", "crash"}
                                         ELSE {"none"}) :
                              IF race = "crash"
                              THEN /\ bloomFilterGossip' = TRUE
                                   /\ crashed' = TRUE
                                   /\ call' = Call(op, req, "", "local", Nil, "panic", <<>>, 0)
                                   /\ UNCHANGED knownRound
                              ELSE LET nErrs == IF race = "lost" THEN out.failed - 1
                                                ELSE out.failed
                                   IN  /\ knownRound' = knownRound \cup {roundID}
                                       /\ bloomFilterGossip' = FALSE
                                       /\ call' = Call(op, req, "", "local", [errs |-> nErrs],
                                                       errReturn(nErrs), <<>>, 0)
                                       /\ UNCHANGED crashed

\* the orders in which a map of recipients is walked
Orders(recipients) ==
    {ids \in [1..Cardinality(recipients) -> recipients] :
        \A i, j \in DOMAIN ids : ids[i] = ids[j] => i = j}

\* buildGossipPayloadBloom(recipientIDs, roundId), the keys in the order ids
buildGossipPayloadBloom(ids, roundId) ==
    Recipients(roundId, [i \in DOMAIN ids |-> [ok |-> TRUE, Int64 |-> ids[i].Int64]])

\* the errors of the peers that did not take the message
RECURSIVE PeerErrors(_)
PeerErrors(peers) ==
    IF peers = <<>> THEN <<>>
    ELSE (IF Head(peers) = "ok" THEN <<>> ELSE <<"send">>) \o PeerErrors(Tail(peers))

\* does GossipBloom return an error for the errors Gossip collected
SendFailed(peers, errs) == Len(errs) # 0

\* GossipBloom(recipients, roundId): env tells whether the payload and the
\* signature can be built, whether the protocol is registered, and what
\* each peer the message is sent to answers
GossipBloom(recipients, roundId, env) ==
    /\ ~crashed
    /\ \E ids \in Orders(recipients) :
          LET op == "GossipBloom"
              req == [recipients |-> recipients, roundId |-> roundId, env |-> env]
              payload == buildGossipPayloadBloom(ids, roundId)
              gossipMsg == [Tag |-> "Bloom", Origin |-> GatewayOrigin, Payload |-> payload,
                            Signature |-> Signature(GatewayOrigin, "Bloom", GatewayOrigin,
                                                    payload)]
              errs == PeerErrors(env.peers)
          IN  IF env.payloadErr THEN Return(op, req, "", "local", Nil, "Payload")
              ELSE IF env.signErr THEN Return(op, req, "", "local", Nil, "Signature")
              ELSE IF ~env.protocol THEN Return(op, req, "", "local", Nil, "Protocol")
              ELSE Return(op, req, "", "local",
                          [gossipMsg |-> gossipMsg, peers |-> env.peers],
                          IF SendFailed(env.peers, errs) THEN "Peers" ELSE NoErr)

-----------------------------------------------------------------------------
(* Environment *)

\* one LeakDuration passes: every bucket leaks
Leak ==
    /\ ~crashed
    /\ \E k \in DOMAIN buckets : buckets[k] > 0
    /\ buckets' = [k \in DOMAIN buckets |-> BucketLeak(buckets[k])]
    /\ sent' = NoSend
    /\ uploaded' = NoUpload
    /\ call' = Call("Leak", Nil, "", "local", Nil, NoErr, <<>>, 0)
    /\ UNCHANGED <<filterVars, stepVars, clients, UnmixedBuffer, mixedMessages, uploads, crashed>>

\* the orchestrator opens the batch of a round
OpenRound(round) ==
    /\ ~crashed
    /\ ~UnmixedBuffer[round].open
    /\ UnmixedBuffer' = [UnmixedBuffer EXCEPT ![round] = [open |-> TRUE, slots |-> <<>>]]
    /\ sent' = NoSend
    /\ uploaded' = NoUpload
    /\ call' = Call("OpenRound", round, "", "local", Nil, NoErr, <<>>, 0)
    /\ UNCHANGED <<filterVars, stepVars, clients, buckets, mixedMessages, uploads, crashed>>

-----------------------------------------------------------------------------
(* Initial state: a gateway just constructed *)

Init ==
    /\ clients = [u \in Users |-> NoKey]
    /\ buckets = [k \in Users \cup IPs |-> 0]
    /\ UnmixedBuffer = [r \in Rounds |-> NoBatch]
    /\ mixedMessages = NoMixedMessages
    /\ uploaded = NoUpload
    /\ uploads = NoUploads
    /\ sent = NoSend
    /\ call = Call("none", Nil, "", "local", Nil, NoErr, <<>>, 0)
    /\ crashed = FALSE
    /\ rounds = [r \in Rounds |-> NoRound]
    /\ bloomFilters = NoFilters
    /\ knownRound = {}
    /\ bloomFilterGossip = FALSE
    /\ outgoingMessages = <<>>
    /\ receivers = NoReceivers

-----------------------------------------------------------------------------
(* Requests *)

\* the MAC a client that holds `key` computes over a slot, using `salt`
ClientMAC(key, salt, message, round) ==
    cMixHash(<<cMixHash(<<key, salt>>), <<"digest", message, round>>>>)

\* a client's slot
Slot(sender) == [Salt |-> "s1", SenderID |-> sender, PayloadA |-> <<"p">>]

\* the gateway slots clients send: the MAC is computed with one of `keys` and
\* one of `salts` (it is right only with the sender's registered key and the
\* slot's own salt)
GatewaySlots(senders, rnds, targets, keys, salts) ==
    { [Target |-> t, Message |-> Slot(u), RoundID |-> r,
       MAC |-> ClientMAC(k, s, Slot(u), r)] :
        u \in senders, r \in rnds, t \in targets, k \in keys, s \in salts }

\* a client's slot with a payload of its own
SlotWith(sender, payload) ==
    [Salt |-> "s1", SenderID |-> sender, PayloadA |-> <<"p", payload>>]

\* the slots the gateway holds or has streamed: in the buffer, in an upload
\* under way, in a streamed batch
RECURSIVE SlotsOfAll(_)
SlotsOfAll(batches) ==
    IF batches = <<>> THEN {}
    ELSE {Head(batches)[i] : i \in 1..Len(Head(batches))} \cup SlotsOfAll(Tail(batches))
KnownSlots ==
    UNION { {UnmixedBuffer[r].slots[i] : i \in 1..Len(UnmixedBuffer[r].slots)} :
              r \in DOMAIN UnmixedBuffer }
    \cup UNION { {u.slots[i] : i \in 1..Len(u.slots)} : u \in uploads.inflight }
    \cup SlotsOfAll(uploads.streamed)

\* the slots of `sender` the gateway has not seen yet, as gateway slots for
\* round r with the MAC of `key`
FreshGatewaySlots(sender, r, key) ==
    { [Target |-> NoTarget, Message |-> SlotWith(sender, p), RoundID |-> r,
       MAC |-> ClientMAC(key, "s1", SlotWith(sender, p), r)] :
        p \in {q \in 1..MaxPayloads : SlotWith(sender, q) \notin KnownSlots} }

\* sequences of 1..n elements of S
RECURSIVE SeqsUpTo(_, _)
SeqsUpTo(S, n) ==
    IF n = 0 THEN {}
    ELSE LET shorter == SeqsUpTo(S, n - 1)
         IN  {<<x>> : x \in S} \cup shorter \cup {Append(q, x) : q \in shorter, x \in S}

\* batches of up to n fresh slots, no slot twice
FreshBatches(sender, r, key, n) ==
    { [Target |-> NoTarget, Messages |-> ms, RoundID |-> r] :
        ms \in { q \in SeqsUpTo(FreshGatewaySlots(sender, r, key), n) :
                   \A i, j \in 1..Len(q) : i # j => q[i] # q[j] } }

\* the batches clients send for round r: the batch carries Target t, its
\* slots carry the batch's round and one of slotTargets
GatewaySlotsBatches(senders, r, slotTargets, t, keys, salts, n) ==
    { [Target |-> t, Messages |-> ms, RoundID |-> r] :
        ms \in SeqsUpTo(GatewaySlots(senders, {r}, slotTargets, keys, salts), n) }

\* a gateway slot without its Message
NilMessageSlot(r, t) ==
    [Target |-> t, Message |-> Nil, RoundID |-> r, MAC |-> ClientMAC(NoKey, "s1", Nil, r)]

\* batches for this gateway whose last slot has no Message, alone or after
\* one of u1's slots
NilMessageBatches(r, keys, salts) ==
    { [Target |-> NoTarget, Messages |-> pre \o <<NilMessageSlot(r, NoTarget)>>, RoundID |-> r] :
        pre \in {<<>>} \cup {<<g>> : g \in GatewaySlots({"u1"}, {r}, {NoTarget}, keys, salts)} }

\* a well-formed registration of user u, and collaborators that all succeed
KeyRequest(t, u) ==
    [Target |-> t, ts |-> 0, parse |-> TRUE, conf |-> "ok", pub |-> TRUE, user |-> u]
KeyEnv(k) ==
    [key |-> k, upsertErr |-> FALSE, serverErr |-> FALSE, signErr |-> FALSE,
     respOK |-> TRUE, idErr |-> FALSE]

\* registrations with at most one defect: unparsable, four minutes old, four
\* minutes ahead, confirmation missing or unparsable, public key not PEM
KeyRequests(targets, users) ==
    UNION { { KeyRequest(t, u),
              [KeyRequest(t, u) EXCEPT !.parse = FALSE],
              [KeyRequest(t, u) EXCEPT !.ts = -4],
              [KeyRequest(t, u) EXCEPT !.ts = 4],
              [KeyRequest(t, u) EXCEPT !.conf = "nil"],
              [KeyRequest(t, u) EXCEPT !.conf = "bad"],
              [KeyRequest(t, u) EXCEPT !.pub = FALSE] } : t \in targets, u \in users }

\* collaborators of which at most one fails
KeyEnvs(keys) ==
    UNION { { KeyEnv(k),
              [KeyEnv(k) EXCEPT !.serverErr = TRUE],
              [KeyEnv(k) EXCEPT !.signErr = TRUE],
              [KeyEnv(k) EXCEPT !.respOK = FALSE],
              [KeyEnv(k) EXCEPT !.idErr = TRUE],
              [KeyEnv(k) EXCEPT !.upsertErr = TRUE] } : k \in keys }

GetMessagesRequests(targets) ==
    { [Target |-> t, RoundID |-> r, ClientID |-> c] :
        t \in targets, c \in {NilClientID, BadClientID, [Int64 |-> 1]}, r \in {0, 1} }

HistoricalRoundsRequests(targets) ==
    { [Rounds |-> rs, Target |-> t] : t \in targets, rs \in {NilRounds, <<1>>} }

RoundInfo(r, bs) == [BatchSize |-> bs, Topology |-> Topology, ID |-> r]

-----------------------------------------------------------------------------
(* Spec: registered clients fill the rounds' batches and the batches are   *)
(* uploaded.  Every slot carries the MAC of the key "k1" that registration *)
(* hands out; the sender's IP is whitelisted.                              *)

Next ==
    \/ \E u \in Users : RequestClientKey(KeyRequest(NoTarget, u), KeyEnv("k1"))
    \/ \E msg \in GatewaySlots(Users, Rounds, {NoTarget}, {"k1"}, {"s1"}) :
          PutMessage(msg, "ipW")
    \/ \E r \in Rounds :
          \E messages \in GatewaySlotsBatches(Users, r, {NoTarget}, NoTarget,
                                              {"k1"}, {"s1"}, MaxMessages) :
              PutManyMessages(messages, "ipW")
    \/ \E r \in Rounds, bs \in 0..BatchSize, now \in [0..(BatchSize - 1) -> Times] :
          UploadUnmixedBatch(RoundInfo(r, bs), now)
    \/ \E r \in Rounds : OpenRound(r)

Spec == Init /\ [][Next]_vars

-----------------------------------------------------------------------------
(* SpecProxy: every client-facing RPC, with every kind of Target *)

NextProxy ==
    \/ \E msg \in KeyRequests(AllTargets, {"u1"}), env \in KeyEnvs({"k1"}) :
          RequestClientKey(msg, env)
    \/ \E msg \in GatewaySlots({"u1"}, {1}, AllTargets, {"k1"}, Salts)
                   \cup {NilMessageSlot(1, t) : t \in AllTargets} :
          PutMessage(msg, "ipN")
    \/ \E t \in AllTargets :
          \E messages \in GatewaySlotsBatches({"u1"}, 1, {NoTarget, t}, t,
                                              {"k1"}, Salts, MaxMessages)
                          \cup {[Target |-> t, Messages |-> <<>>, RoundID |-> 1]} :
              PutManyMessages(messages, "ipN")
    \/ \E messages \in NilMessageBatches(1, {"k1"}, Salts) : PutManyMessages(messages, "ipN")
    \/ \E req \in GetMessagesRequests(AllTargets) : RequestMessages(req)
    \/ \E msg \in HistoricalRoundsRequests(AllTargets), retrieved \in BOOLEAN :
          RequestHistoricalRounds(msg, retrieved)
    \/ Leak

SpecProxy == Init /\ [][NextProxy]_vars

-----------------------------------------------------------------------------
(* SpecAuth: slots of a registered and of an unregistered sender, with     *)
(* MACs computed under the right and under wrong keys and salts            *)

NextAuth ==
    \/ \E k \in Keys : RequestClientKey(KeyRequest(NoTarget, "u1"), KeyEnv(k))
    \/ \E msg \in GatewaySlots(Users, {1}, {NoTarget}, Keys, Salts) :
          PutMessage(msg, "ipN")
    \/ \E messages \in GatewaySlotsBatches(Users, 1, {NoTarget}, NoTarget,
                                          Keys, Salts, MaxMessages) :
          PutManyMessages(messages, "ipN")

SpecAuth == Init /\ [][NextAuth]_vars

-----------------------------------------------------------------------------
(* SpecRate: authenticated traffic from whitelisted and other addresses,   *)
(* with the buckets leaking as time passes                                 *)

NextRate ==
    \/ \E u \in Users : RequestClientKey(KeyRequest(NoTarget, u), KeyEnv("k1"))
    \/ \E msg \in GatewaySlots(Users, {1}, {NoTarget}, {"k1"}, {"s1"}), ip \in IPs :
          PutMessage(msg, ip)
    \/ \E ip \in IPs :
          \E messages \in GatewaySlotsBatches(Users, 1, {NoTarget}, NoTarget,
                                              {"k1"}, {"s1"}, MaxMessages) :
              PutManyMessages(messages, ip)
    \/ \E now \in [0..(BatchSize - 1) -> Times] :
          UploadUnmixedBatch(RoundInfo(1, BatchSize), now)
    \/ Leak

SpecRate == Init /\ [][NextRate]_vars

-----------------------------------------------------------------------------
(* SpecShip: a registered client sends slots, each with a payload of its   *)
(* own, while round 1 is uploaded again and again; an upload's PopRound    *)
(* and its send are separate steps, so that slots arrive in between        *)

NextShip ==
    \/ RequestClientKey(KeyRequest(NoTarget, "u1"), KeyEnv("k1"))
    \/ \E msg \in FreshGatewaySlots("u1", 1, "k1") : PutMessage(msg, "ipW")
    \/ \E messages \in FreshBatches("u1", 1, "k1", MaxMessages) :
          PutManyMessages(messages, "ipW")
    \/ \E bs \in 0..BatchSize : UploadPopRound(RoundInfo(1, bs))
    \/ \E upload \in uploads.inflight : UploadSend(upload, [i \in 0..(BatchSize - 1) |-> 1])

SpecShip == Init /\ [][NextShip]_vars

-----------------------------------------------------------------------------
(* SpecBatch: completed batches of rounds 1 and 2 are processed, rounds    *)
(* are deleted from the store, recipients ask for their messages           *)

\* the slots of a completed batch: a dummy, and messages for the ephemeral
\* recipients 1 and 2
MixedSlots == {MixedSlot("junk", 2, dummyIdFp)}
              \cup {MixedSlot("m", rid, "fp1") : rid \in {1, 2}}

\* the batch is processed with the round ready, gossip enabled, the
\* notification bot known and the store working; round r has an address
\* space of r bits
BatchEnv(r) ==
    [round |-> "ready", AddressSpaceSize |-> r, Timestamp |-> 1,
     errGossip |-> NoErr, errFilters |-> NoErr, insertErr |-> FALSE,
     roundEvent |-> [TimedOut |-> FALSE, RoundInfo |-> TRUE],
     DisableGossip |-> FALSE, NotificationAddress |-> TRUE, botHost |-> TRUE]

\* the same with one thing different: the round absent or early, and then
\* arriving, timing out or delivered as nil; gossip disabled; no
\* notification bot in the NDF; its host unknown; the insert failing
BatchEnvs(r) ==
    {BatchEnv(r),
     [BatchEnv(r) EXCEPT !.DisableGossip = TRUE],
     [BatchEnv(r) EXCEPT !.NotificationAddress = FALSE],
     [BatchEnv(r) EXCEPT !.botHost = FALSE],
     [BatchEnv(r) EXCEPT !.insertErr = TRUE]}
    \cup UNION { { [BatchEnv(r) EXCEPT !.round = found],
                   [BatchEnv(r) EXCEPT !.round = found, !.roundEvent.TimedOut = TRUE,
                                       !.roundEvent.RoundInfo = FALSE],
                   [BatchEnv(r) EXCEPT !.round = found, !.roundEvent.RoundInfo = FALSE] } :
                 found \in {"nil", "early"} }

\* the batches of round 1 meet every environment, those of round 2 the
\* working one
NextBatch ==
    \/ \E r \in Rounds :
          \E env \in (IF r = 1 THEN BatchEnvs(r) ELSE {BatchEnv(r)}),
             msgs \in SeqsUpTo(MixedSlots, BatchSize) \cup {<<>>} :
              ProcessCompletedBatch(msgs, r, env)
    \/ \E r \in Rounds : DeleteMixedMessageByRound(r)
    \/ \E c \in {[Int64 |-> 0], [Int64 |-> 2]}, r \in Rounds :
          RequestMessages([Target |-> NoTarget, RoundID |-> r, ClientID |-> c])

SpecBatch == Init /\ [][NextBatch]_vars

-----------------------------------------------------------------------------
(* The round table under updates arriving in any order *)

RoundStates == {"QUEUED", "COMPLETED"}

NextRound ==
    \E r \in Rounds, u \in 0..MaxUpdateId, state \in RoundStates :
        UpsertRound(Round(r, u, state))

SpecRound == Init /\ [][NextRound]_vars

-----------------------------------------------------------------------------
(* The mixed-message table under inserts, deletes and reads *)

\* the messages callers insert: for the recipients 1 and 2 of either round,
\* with the Id left unset or set to 1
StoreMessages ==
    {[NewMixedMessage(r, [Int64 |-> c], <<"a">>, <<"b">>) EXCEPT !.Id = i] :
        r \in Rounds, c \in {1, 2}, i \in {0, 1}}

NextStore ==
    \/ \E messages \in SeqsUpTo(StoreMessages, BatchSize) : StoreInsertMixedMessages(messages)
    \/ \E r \in Rounds : DeleteMixedMessageByRound(r)
    \/ \E c \in {1, 2}, r \in Rounds :
          RequestMessages([Target |-> NoTarget, RoundID |-> r, ClientID |-> [Int64 |-> c]])

SpecStore == Init /\ [][NextStore]_vars

-----------------------------------------------------------------------------
(* The bloom filter table under upserts in any order *)

\* the filters upserted: every slice of FilterLen bits, a shorter one, nil
Filters == {f \in [1..FilterLen -> {0, 1}] : TRUE} \cup {<<1>>, <<>>}

\* recipient 1 gets any filter for any round in epoch 1; recipient 2 gets
\* one filter in epoch 2
NextFilter ==
    \/ \E f \in Filters, r \in 1..MaxFilterRound : HandleBloomFilter([Int64 |-> 1], f, r, 1)
    \/ HandleBloomFilter([Int64 |-> 2], <<1, 0>>, 1, 2)

SpecFilter == Init /\ [][NextFilter]_vars

-----------------------------------------------------------------------------
(* Bloom gossip: messages are verified, received and sent *)

\* the network instance: round 1 unknown, or known with a topology of the
\* node of gateway gwA, of the node of gwB, of gwA still typed as gateway,
\* or one that does not parse; round 2 known with the node of gwA;
\* Timestamps[QUEUED] is 1 for round 1 and 5 for round 2
Topologies ==
    {[ok |-> TRUE, ids |-> <<ID("gwA", "node")>>],
     [ok |-> TRUE, ids |-> <<ID("gwB", "node"), ID("gwC", "node")>>],
     [ok |-> TRUE, ids |-> <<ID("gwA", "gateway")>>],
     [ok |-> FALSE, ids |-> <<>>]}
Instances ==
    {[r \in Rounds |-> IF r = 1 THEN first
                       ELSE [Topology |-> [ok |-> TRUE, ids |-> <<ID("gwA", "node")>>],
                             Timestamp |-> 5]] :
        first \in {NoRound} \cup {[Topology |-> t, Timestamp |-> 1] : t \in Topologies}}

\* the recipients of a payload: the ids 1 and 2, and bytes that are no id
RecipientIds == {[ok |-> TRUE, Int64 |-> 1], [ok |-> TRUE, Int64 |-> 2], [ok |-> FALSE]}

\* the payloads gossiped: for round 1 any recipients, for round 2 recipient
\* 1, and one that does not unmarshal
Payloads ==
    {Recipients(1, ids) : ids \in SeqsUpTo(RecipientIds, MaxRecipients)}
    \cup {Recipients(2, <<[ok |-> TRUE, Int64 |-> 1]>>), BadPayload}

\* a bloom message from origin, signed by signer
GossipMsg(origin, signer, payload) ==
    [Signature |-> Signature(signer, "Bloom", origin, payload),
     Tag |-> "Bloom", Origin |-> origin, Payload |-> payload]

\* the instances of a receive: round 1 unknown or known
ReceiveInstances ==
    {i \in Instances : i[1] = NoRound \/ i[1].Topology.ids = <<ID("gwA", "node")>>}

\* what the peers answer: the protocol sends to FanOut peers at most
GossipEnv(peers) ==
    [signErr |-> FALSE, peers |-> peers, payloadErr |-> FALSE, protocol |-> TRUE]
GossipEnvs ==
    {GossipEnv(peers) : peers \in SeqsUpTo({"ok", "fail"}, FanOut) \ {<<>>}}
    \cup {[GossipEnv(<<"ok">>) EXCEPT !.payloadErr = TRUE],
          [GossipEnv(<<"ok">>) EXCEPT !.signErr = TRUE],
          [GossipEnv(<<"ok">>) EXCEPT !.protocol = FALSE]}

NextGossip ==
    \/ \E origin \in {ID("gwA", "gateway"), ID("gwB", "gateway")},
          signer \in {ID("gwA", "gateway"), ID("gwB", "gateway")},
          payload \in {Recipients(r, <<[ok |-> TRUE, Int64 |-> 1]>>) : r \in Rounds}
                         \cup {BadPayload},
          instance \in Instances :
          gossipVerify(GossipMsg(origin, signer, payload), instance)
    \/ \E payload \in Payloads, instance \in ReceiveInstances,
          fails \in {{}, {1}, 1..MaxRecipients} :
          gossipBloomFilterReceive(GossipMsg(GatewayOrigin, GatewayOrigin, payload),
                                   instance, fails)
    \/ \E recipients \in SUBSET {[Int64 |-> 1], [Int64 |-> 2]}, r \in Rounds,
          env \in GossipEnvs :
          GossipBloom(recipients, r, env)

SpecGossip == Init /\ [][NextGossip]_vars

-----------------------------------------------------------------------------
(* Properties *)

\* the client-facing RPCs
ClientRPCs == {"RequestClientKey", "PutMessage", "PutManyMessages",
               "RequestMessages", "RequestHistoricalRounds"}

\* the other gateways a Target may name, and those that can be reached
Siblings == AllTargets \ {NoTarget, GatewayID, BadTarget}
ReachableSiblings == (HostTable \cap ConnectedHosts) \ {GatewayID}

\* the slot's sender is registered and the slot's MAC is
\* cMixHash(cMixHash(Key || Salt) || SlotDigest(slot))
Authentic(gslot) ==
    /\ gslot.Message.SenderID \in DOMAIN clients
    /\ clients[gslot.Message.SenderID] # NoKey
    /\ gslot.MAC = ClientMAC(clients[gslot.Message.SenderID], gslot.Message.Salt,
                             gslot.Message, gslot.RoundID)

\* C1: a PutMessage whose Target is a known, connected host other than this
\* gateway is forwarded unchanged to that host and the host's response and
\* error are returned, with no MAC computed, no bucket charged and nothing
\* appended; a PutMessage whose Target is empty or the gateway's own id is
\* processed locally and nothing is forwarded.
C1_PutMessageProxy ==
    [][ call'.op = "PutMessage" =>
          /\ call'.req.Target \in ReachableSiblings =>
                /\ call'.route = "forward"
                /\ sent' = [to |-> call'.req.Target, rpc |-> "PutMessage",
                            req |-> call'.req, reply |-> sent'.reply]
                /\ call'.resp = sent'.reply.resp
                /\ call'.err = sent'.reply.err
                /\ call'.macs = 0
                /\ call'.charged = <<>>
                /\ buckets' = buckets
                /\ UnmixedBuffer' = UnmixedBuffer
          /\ call'.req.Target \in {NoTarget, GatewayID} =>
                /\ call'.route = "local"
                /\ sent' = NoSend
      ]_vars

\* a PutMessage was forwarded to gw2 and gw2's answer came back
C1_Forwarded ==
    /\ call.op = "PutMessage"
    /\ call.route = "forward"
    /\ sent.to = "gw2"
    /\ sent.req = call.req
    /\ call.resp = [remote |-> "ok"]

\* C2: every client-facing RPC takes the same forwarding decision, before
\* any validation: a request whose Target is a reachable sibling is forwarded
\* unchanged, a request whose Target is empty or the own id is not forwarded.
C2_UniformForwarding ==
    call.op \in ClientRPCs =>
        /\ call.req.Target \in ReachableSiblings =>
              /\ call.route = "forward"
              /\ sent.to = call.req.Target
              /\ sent.req = call.req
        /\ call.req.Target \in {NoTarget, GatewayID} => sent = NoSend

\* C3: a request whose Target names a gateway that is missing from the host
\* table or not connected fails with an error, forwards nothing and leaves
\* the client store, the buckets and the UnmixedBuffer as they were.
C3_UnreachableTarget ==
    [][ (call'.op \in ClientRPCs /\ call'.req.Target \in Siblings \ ReachableSiblings) =>
          /\ call'.err # NoErr
          /\ sent' = NoSend
          /\ clients' = clients
          /\ buckets' = buckets
          /\ UnmixedBuffer' = UnmixedBuffer
      ]_vars

\* C4: every response RequestClientKey returns from its local path carries
\* an empty ClientGatewayKey.
C4_KeyNeverReturned ==
    (call.op = "RequestClientKey" /\ call.route = "local" /\ call.resp # Nil) =>
        call.resp.ClientGatewayKey = NoKey

\* a registration succeeded: the node's key is in the store, not in the reply
C4_Registered ==
    /\ call.op = "RequestClientKey"
    /\ call.route = "local"
    /\ call.err = NoErr
    /\ call.resp # Nil
    /\ call.resp.Signed
    /\ clients[call.req.user] \in Keys

\* the slots of a PutMessage or PutManyMessages request
RequestSlots(op, req) == IF op = "PutMessage" THEN <<req>> ELSE req.Messages

\* C5: a PutMessage or PutManyMessages that holds a slot of an unregistered
\* sender, or a slot whose MAC is not the one computed from the sender's key,
\* the slot's salt and the slot's digest, returns an error, charges no bucket
\* and appends no slot.
C5_AuthenticationGate ==
    [][ ( /\ call'.op \in {"PutMessage", "PutManyMessages"}
          /\ call'.route = "local"
          /\ \E i \in 1..Len(RequestSlots(call'.op, call'.req)) :
                ~Authentic(RequestSlots(call'.op, call'.req)[i]) ) =>
          /\ call'.err # NoErr
          /\ call'.charged = <<>>
          /\ buckets' = buckets
          /\ UnmixedBuffer' = UnmixedBuffer
      ]_vars

\* a batch whose first slot is authentic and whose second slot carries a
\* wrong MAC was rejected
C5_SecondSlotRejected ==
    /\ call.op = "PutManyMessages"
    /\ Len(call.req.Messages) = 2
    /\ Authentic(call.req.Messages[1])
    /\ ~Authentic(call.req.Messages[2])
    /\ call.req.Messages[2].Message.SenderID = call.req.Messages[1].Message.SenderID
    /\ call.err = "Unauthenticated"

C7_ChargePerSlot ==
    ( /\ call.op = "PutManyMessages"
      /\ call.route = "local"
      /\ Len(call.req.Messages) > 0
      /\ \A i \in 1..Len(call.req.Messages) : Authentic(call.req.Messages[i]) ) =>
        call.charged = [i \in 1..Len(call.req.Messages) |->
                            call.req.Messages[i].Message.SenderID]

\* C8: a PutMessage for a round whose open batch already holds BatchSize
\* slots returns Accepted = false and an error, and no round's buffered slots
\* change.
C8_OverfullRejected ==
    [][ ( /\ call'.op = "PutMessage"
          /\ call'.route = "local"
          /\ UnmixedBuffer[call'.req.RoundID].open
          /\ Len(UnmixedBuffer[call'.req.RoundID].slots) = BatchSize ) =>
          /\ ~GetAccepted(call'.resp)
          /\ call'.err # NoErr
          /\ UnmixedBuffer' = UnmixedBuffer
      ]_vars

\* an authenticated message reached a full batch and was refused
C8_Overfull ==
    /\ call.op = "PutMessage"
    /\ Authentic(call.req)
    /\ call.err = "Overfull"
    /\ call.resp = [Accepted |-> FALSE]
    /\ Len(UnmixedBuffer[call.req.RoundID].slots) = BatchSize

\* C9: a PutManyMessages that reaches the append adds nothing and fails when
\* the list does not fit into the round's batch, and otherwise adds every
\* slot of the list, in the order given, after the slots already buffered.
C9_AllOrNothing ==
    [][ ( /\ call'.op = "PutManyMessages"
          /\ call'.route = "local"
          /\ Len(call'.req.Messages) > 0
          /\ \A i \in 1..Len(call'.req.Messages) : Authentic(call'.req.Messages[i])
          /\ call'.err # "RateLimited" ) =>
          LET r == call'.req.RoundID
              slots == [i \in 1..Len(call'.req.Messages) |-> call'.req.Messages[i].Message]
          IN  IF Len(UnmixedBuffer[r].slots) + Len(slots) > BatchSize
              THEN /\ call'.err # NoErr
                   /\ UnmixedBuffer' = UnmixedBuffer
              ELSE /\ call'.err = NoErr
                   /\ UnmixedBuffer'[r].slots = UnmixedBuffer[r].slots \o slots
                   /\ \A o \in Rounds \ {r} : UnmixedBuffer'[o] = UnmixedBuffer[o]
      ]_vars

\* a list of two slots met a batch with room for one: nothing was appended
C9_PartFits ==
    /\ call.op = "PutManyMessages"
    /\ call.err = "Overfull"
    /\ Len(call.req.Messages) = 2
    /\ Len(UnmixedBuffer[call.req.RoundID].slots) = BatchSize - 1

\* C10: when the round's batch holds k <= BatchSize slots, UploadUnmixedBatch
\* ships BatchSize slots: the k buffered slots in their order, then junk, the
\* junk at position i (counted from 0) generated from msgNum = i and the
\* round id.
C10_PaddedUpload ==
    [][ ( /\ call'.op = "UploadUnmixedBatch"
          /\ call'.req.BatchSize > 0
          /\ UnmixedBuffer[call'.req.ID].open
          /\ Len(UnmixedBuffer[call'.req.ID].slots) <= call'.req.BatchSize ) =>
          LET buffered == UnmixedBuffer[call'.req.ID].slots
              k == Len(buffered)
          IN  /\ uploaded' # NoUpload
              /\ uploaded'.round = call'.req.ID
              /\ Len(uploaded'.slots) = call'.req.BatchSize
              /\ \A i \in 0..(k - 1) : uploaded'.slots[i + 1] = buffered[i + 1]
              /\ \A i \in k..(call'.req.BatchSize - 1) :
                    \E t \in Times :
                        uploaded'.slots[i + 1] =
                            GenJunkMsg(Len(call'.req.Topology), i, call'.req.ID, t)
      ]_vars

\* a batch that held one client slot was shipped with junk behind it
C10_Padded ==
    /\ call.op = "UploadUnmixedBatch"
    /\ uploaded # NoUpload
    /\ Len(uploaded.slots) = BatchSize
    /\ uploaded.slots[1].SenderID \in Users
    /\ uploaded.slots[BatchSize].SenderID = "DummyUser"

-----------------------------------------------------------------------------
(* C11 *)

\* the clients' slots of a batch, in order
ClientSlots(batch) == SelectSeq(batch, LAMBDA slot : slot.SenderID # "DummyUser")

\* no client slot twice in one streamed batch, none in two streamed batches
NoSlotShippedTwice ==
    \A i, j \in 1..Len(uploads.streamed) :
        LET a == ClientSlots(uploads.streamed[i])
            b == ClientSlots(uploads.streamed[j])
        IN  /\ \A m, n \in 1..Len(a) : m # n => a[m] # a[n]
            /\ i # j => \A m \in 1..Len(a), n \in 1..Len(b) : a[m] # b[n]

\* C11: every slot admitted to a round's batch is streamed to the mix server
\* in at most one batch; PopRound leaves the round without a batch, and an
\* upload whose PopRound finds no batch holds nothing and streams nothing
C11_ShippedAtMostOnce ==
    [][ /\ NoSlotShippedTwice'
        /\ (call'.op = "UploadUnmixedBatch.PopRound" /\ call'.req.BatchSize > 0)
             => /\ UnmixedBuffer'[call'.req.ID] = NoBatch
                /\ UnmixedBuffer[call'.req.ID] = NoBatch
                     => uploads' = uploads /\ uploaded' = NoUpload ]_vars

\* round 1 was streamed twice with clients' slots, and a further PopRound
\* found nothing
C11_PoppedTwice ==
    /\ Len(uploads.streamed) >= 2
    /\ \A i \in 1..2 : ClientSlots(uploads.streamed[i]) # <<>>
    /\ call.op = "UploadUnmixedBatch.PopRound"
    /\ call.req.BatchSize > 0
    /\ uploads.inflight = {}

-----------------------------------------------------------------------------
(* C12 *)

\* C12: a junk slot depends on (numNodes, msgNum, roundID) only: the junk
\* slot streamed at position i of a round's batch is the slot GenJunkMsg
\* returns for message number i - 1 at every time, and the message it
\* encrypts carries the dummy identity fingerprint
C12_JunkDeterministic ==
    uploaded # NoUpload =>
        \A i \in 1..Len(uploaded.slots) :
            uploaded.slots[i].SenderID = "DummyUser" =>
                /\ uploaded.slots[i].PayloadA[4] = "dummyIdFp"
                /\ \A t \in Times :
                      uploaded.slots[i] =
                          GenJunkMsg(Len(uploaded.header.Round.Topology), i - 1,
                                     uploaded.round, t)

-----------------------------------------------------------------------------
(* C13 .. C17: ProcessCompletedBatch *)

\* the step is a ProcessCompletedBatch call with a batch that is not empty
BatchStep(c) == c.op = "ProcessCompletedBatch" /\ c.req.msgs # <<>>

\* the slots of a batch that are not dummies
NonDummies(msgs) == SelectSeq(msgs, LAMBDA m : GetIdentityFP(m) # dummyIdFp)

\* the recipient of a slot under the call's AddressSpaceSize
ClearedRecipient(m, c) == Clear(Marshal(GetEphemeralRID(m)), c.req.env.AddressSpaceSize)

\* C13: when the round of a non-empty batch is absent or before QUEUED and
\* the wait for it times out, ProcessCompletedBatch returns an error, stores
\* no mixed message, starts neither the bloom gossip nor the filter upsert
\* and sends no notification batch
C13_RoundWaitTimesOut ==
    [][ ( /\ BatchStep(call')
          /\ call'.req.env.round \in {"nil", "early"}
          /\ call'.req.env.roundEvent.TimedOut )
        => /\ call'.err # NoErr
           /\ mixedMessages' = mixedMessages
           /\ call'.resp.GossipBloom = Nil
           /\ call'.resp.UpsertFilters = Nil
           /\ call'.resp.SendNotificationBatch = Nil ]_vars

\* a batch with a message for a recipient met a round before QUEUED and a
\* wait that timed out, at a gateway whose store holds messages
C13_TimedOut ==
    /\ BatchStep(call)
    /\ NonDummies(call.req.msgs) # <<>>
    /\ call.req.env.round = "early"
    /\ call.req.env.roundEvent.TimedOut
    /\ call.err = "Timeout"
    /\ mixedMessages.RoundId # {}

\* C14: a slot whose IdentityFP is the dummy fingerprint yields no
\* MixedMessage in the ClientRound handed to InsertMixedMessages, no row in
\* the store, no recipient and no notification: all of these come from the
\* batch's other slots
C14_DummiesDiscarded ==
    [][ (BatchStep(call') /\ call'.err = NoErr)
        => LET real == NonDummies(call'.req.msgs)
               stored == call'.resp.clientRound.Messages
               notified == call'.resp.SendNotificationBatch
           IN  /\ Len(stored) = Len(real)
               /\ \A i \in 1..Len(stored) :
                     stored[i].MessageContents = real[i].PayloadA \o real[i].PayloadB
               /\ \A row \in mixedMessages'.RoundId \ mixedMessages.RoundId :
                     \E i \in 1..Len(real) :
                         row.MessageContents = real[i].PayloadA \o real[i].PayloadB
               /\ \A rc \in call'.resp.recipients :
                     \E i \in 1..Len(real) : rc = ClearedRecipient(real[i], call')
               /\ notified # Nil =>
                     /\ Len(notified.Notifications) = Len(real)
                     /\ \A i \in 1..Len(real) :
                           notified.Notifications[i].IdentityFP # dummyIdFp ]_vars

\* a batch of a dummy, whose recipient does not clear to 0, and a message
\* was stored, gossiped and notified
C14_DummyInBatch ==
    /\ BatchStep(call)
    /\ call.err = NoErr
    /\ \E i \in 1..Len(call.req.msgs) :
          /\ GetIdentityFP(call.req.msgs[i]) = dummyIdFp
          /\ ClearedRecipient(call.req.msgs[i], call).Int64 # 0
    /\ NonDummies(call.req.msgs) # <<>>
    /\ mixedMessages.RoundId # {}
    /\ call.resp.GossipBloom # Nil
    /\ call.resp.SendNotificationBatch # Nil

\* C15: a recipient id that clears to 0 under the round's AddressSpaceSize
\* is in no recipients set: not in the one processMessages returns, not in
\* the one gossiped, not in the one used for the filter upsert
C15_NoZeroRecipient ==
    [][ (BatchStep(call') /\ call'.err = NoErr)
        => /\ \A rc \in call'.resp.recipients : rc.Int64 # 0
           /\ call'.resp.GossipBloom # Nil =>
                 \A rc \in call'.resp.GossipBloom.recipients : rc.Int64 # 0
           /\ call'.resp.UpsertFilters # Nil =>
                 \A rc \in call'.resp.UpsertFilters.recipients : rc.Int64 # 0 ]_vars

\* a batch with a message whose recipient clears to 0 and one whose
\* recipient does not was gossiped
C15_ClearsToZero ==
    /\ BatchStep(call)
    /\ call.err = NoErr
    /\ \E i \in 1..Len(call.req.msgs) :
          /\ GetIdentityFP(call.req.msgs[i]) # dummyIdFp
          /\ ClearedRecipient(call.req.msgs[i], call).Int64 = 0
    /\ call.resp.recipients # {}
    /\ call.resp.GossipBloom # Nil
    /\ call.resp.UpsertFilters # Nil

\* C16: a message whose recipient clears to 0 is dropped: no MixedMessage of
\* a ClientRound and no row of the store has recipient 0, and no
\* notification is for ephemeral id 0
C16_ZeroRecipientDropped ==
    /\ \A row \in mixedMessages.RoundId : row.RecipientId.Int64 # 0
    /\ (BatchStep(call) /\ call.err = NoErr)
         => /\ \A i \in 1..Len(call.resp.clientRound.Messages) :
                  call.resp.clientRound.Messages[i].RecipientId.Int64 # 0
            /\ call.resp.SendNotificationBatch # Nil =>
                  \A i \in 1..Len(call.resp.SendNotificationBatch.Notifications) :
                      call.resp.SendNotificationBatch.Notifications[i].EphemeralID # 0

\* C17: when InsertMixedMessages fails, ProcessCompletedBatch returns no
\* error, and the bloom gossip, the filter upsert and the notification
\* batch are those of a call whose insert works
C17_InsertFailureIgnored ==
    [][ ( /\ BatchStep(call')
          /\ call'.req.env.insertErr
          /\ call'.req.env.round = "ready" )
        => LET real == NonDummies(call'.req.msgs)
               recipients == {ClearedRecipient(real[i], call') : i \in 1..Len(real)}
                                 \ {[Int64 |-> 0]}
           IN  /\ call'.err = NoErr
               /\ mixedMessages' = mixedMessages
               /\ ~call'.req.env.DisableGossip =>
                     /\ call'.resp.GossipBloom # Nil
                     /\ call'.resp.GossipBloom.recipients = recipients
                     /\ call'.resp.GossipBloom.roundID = call'.req.roundID
                     /\ call'.resp.UpsertFilters # Nil
                     /\ call'.resp.UpsertFilters.recipients = recipients
                     /\ call'.resp.UpsertFilters.roundID = call'.req.roundID
               /\ (call'.req.env.NotificationAddress /\ call'.req.env.botHost) =>
                     /\ call'.resp.SendNotificationBatch # Nil
                     /\ Len(call'.resp.SendNotificationBatch.Notifications) = Len(real) ]_vars

\* the insert of a batch with a message for a recipient failed
C17_InsertFailed ==
    /\ BatchStep(call)
    /\ call.req.env.insertErr
    /\ call.resp.recipients # {}
    /\ call.err = NoErr
    /\ call.resp.GossipBloom # Nil
    /\ call.resp.SendNotificationBatch # Nil

-----------------------------------------------------------------------------
(* C18 *)

\* the rows the store holds for a round, and for a recipient in it
RowsOfRound(roundId) == {m \in mixedMessages.RoundId : m.RoundId = roundId}
RowsOf(recipientId, roundId) == {m \in RowsOfRound(roundId) : m.RecipientId = recipientId}

\* C18: RequestMessages(recipient, round) returns HasRound = TRUE exactly
\* when the store holds a message of the round, for any recipient; with
\* HasRound FALSE the list is empty; the messages it returns are the rows
\* stored for (recipient, round), one for one, each cut into PayloadA and
\* PayloadB
C18_RequestMessages ==
    ( /\ call.op = "RequestMessages"
      /\ call.route = "local"
      /\ call.req.RoundID # 0
      /\ call.req.ClientID \notin {NilClientID, BadClientID} )
    => LET rows == RowsOf(call.req.ClientID, call.req.RoundID)
           msgs == call.resp.Messages
       IN  /\ call.resp.HasRound <=> RowsOfRound(call.req.RoundID) # {}
           /\ ~call.resp.HasRound => msgs = <<>>
           /\ msgs # <<>> =>
                 /\ Len(msgs) = Cardinality(rows)
                 /\ \A row \in rows :
                       Cardinality({i \in 1..Len(msgs) :
                                      msgs[i].PayloadA \o msgs[i].PayloadB = row.MessageContents})
                       = Cardinality({other \in rows :
                                      other.MessageContents = row.MessageContents})
                 /\ \A i \in 1..Len(msgs) : Len(msgs[i].PayloadA) = Len(msgs[i].PayloadB)

\* the round holds two messages of the recipient and one of another, and
\* the recipient asked
C18_TwoOfThree ==
    /\ call.op = "RequestMessages"
    /\ Len(call.resp.Messages) = 2
    /\ Cardinality(RowsOfRound(call.req.RoundID)) = 3

-----------------------------------------------------------------------------
(* C19, C20 *)

\* C19: a key request whose RequestTimestamp is more than three minutes
\* before or after now is rejected: the handler returns an error to the
\* caller instead of going on to the mix server, and no client record is
\* written
C19_TimestampWindow ==
    [][ ( /\ call'.op = "RequestClientKey"
          /\ call'.route = "local"
          /\ call'.req.parse
          /\ \/ call'.req.ts > RequestKeyThresholdMax
             \/ 0 - call'.req.ts > RequestKeyThresholdMax )
        => /\ call'.err \notin {NoErr, "panic"}
           /\ ~crashed'
           /\ clients' = clients ]_vars

\* C20: no client request makes the process crash: the gateway keeps
\* serving after every request
C20_NeverCrashes == ~crashed

-----------------------------------------------------------------------------
(* C21 *)

\* C21: UpsertRound never fails and touches the row of its round only; the
\* row stored afterwards is the stored one or the update, whichever has the
\* greater UpdateId, so that over any sequence of calls it is the update
\* with the greatest UpdateId seen; an update whose UpdateId is less than or
\* equal to the stored one leaves the row as it was
C21_UpsertRoundMonotone ==
    [][ call'.op = "UpsertRound"
        => LET round == call'.req
               stored == rounds[round.Id]
               after == rounds'[round.Id]
           IN  /\ call'.err = NoErr
               /\ \A r \in Rounds \ {round.Id} : rounds'[r] = rounds[r]
               /\ after \in {stored, round}
               /\ after # NoRound
               /\ after.UpdateId >= round.UpdateId
               /\ stored # NoRound =>
                     /\ after.UpdateId >= stored.UpdateId
                     /\ round.UpdateId <= stored.UpdateId => after = stored ]_vars

\* an update as old as the stored round, but in another state, arrived and
\* the stored round stayed
C21_StaleUpdate ==
    /\ call.op = "UpsertRound"
    /\ rounds[call.req.Id] # NoRound
    /\ rounds[call.req.Id] # call.req
    /\ rounds[call.req.Id].UpdateId = call.req.UpdateId
    /\ call.req.UpdateId > 0

-----------------------------------------------------------------------------
(* C22, C23, C24 *)

\* the messages an index holds for a round
InRound(index, roundId) == {m \in index : m.RoundId = roundId}

\* C22: after every insert and every delete the round-first index and the
\* recipient-first index hold the same messages and the count of each round
\* is the number of messages stored for it; a successful insert adds one
\* row for each message of the group, found through both indices
C22_IndicesAgree ==
    [][ /\ mixedMessages'.RoundId = mixedMessages'.RecipientId
        /\ \A r \in Rounds :
              mixedMessages'.RoundIdCount[r] = Cardinality(InRound(mixedMessages'.RoundId, r))
        /\ (call'.op = "InsertMixedMessages" /\ call'.err = NoErr) =>
              /\ Cardinality(mixedMessages'.RoundId \ mixedMessages.RoundId) = Len(call'.req)
              /\ \A i \in 1..Len(call'.req) :
                    \E row \in mixedMessages'.RoundId \cap mixedMessages'.RecipientId :
                        /\ row \notin mixedMessages.RoundId
                        /\ row.RoundId = call'.req[i].RoundId
                        /\ row.RecipientId = call'.req[i].RecipientId
                        /\ row.MessageContents = call'.req[i].MessageContents ]_vars

\* two messages went into a store that holds a third, after a delete
C22_InsertedAfterDelete ==
    /\ call.op = "InsertMixedMessages"
    /\ call.err = NoErr
    /\ Len(call.req) = 2
    /\ Cardinality(mixedMessages.RoundId) = 2
    /\ mixedMessages.IdTrack = 3

\* C23: an insert of a group one of whose messages has a (round, recipient,
\* id) triple that the store already holds fails with AlreadyExists and
\* leaves both indices and every count as they were
C23_InsertAllOrNothing ==
    [][ ( /\ call'.op = "InsertMixedMessages"
          /\ \E i \in 1..Len(call'.req) :
                \E m \in mixedMessages.RoundId : Triple(m) = Triple(call'.req[i]) )
        => /\ call'.err = "AlreadyExists"
           /\ mixedMessages' = mixedMessages ]_vars

\* a group whose first message is new and whose second is already stored
\* was refused
C23_SecondExists ==
    /\ call.op = "InsertMixedMessages"
    /\ call.err = "AlreadyExists"
    /\ Len(call.req) = 2
    /\ \A m \in mixedMessages.RoundId : Triple(m) # Triple(call.req[1])
    /\ \E m \in mixedMessages.RoundId : Triple(m) = Triple(call.req[2])

\* C24: after DeleteMixedMessageByRound(r) neither index holds a message of
\* round r and GetMixedMessages answers that the gateway has no message of
\* r, while the messages and the count of every other round are as before
\* in both indices
C24_DeleteByRound ==
    [][ call'.op = "DeleteMixedMessageByRound"
        => LET r == call'.req
           IN  /\ InRound(mixedMessages'.RoundId, r) = {}
               /\ InRound(mixedMessages'.RecipientId, r) = {}
               /\ \A c \in {1, 2} :
                     /\ ~GetMixedMessages([Int64 |-> c], call.req)'.isValidGateway
                     /\ GetMixedMessages([Int64 |-> c], call.req)'.msgs = {}
               /\ \A other \in Rounds \ {r} :
                     /\ InRound(mixedMessages'.RoundId, other)
                          = InRound(mixedMessages.RoundId, other)
                     /\ InRound(mixedMessages'.RecipientId, other)
                          = InRound(mixedMessages.RecipientId, other)
                     /\ mixedMessages'.RoundIdCount[other] = mixedMessages.RoundIdCount[other]
                     /\ \A c \in {1, 2} :
                           GetMixedMessages([Int64 |-> c], other)'
                             = GetMixedMessages([Int64 |-> c], other) ]_vars

\* a round was deleted and the store, which has taken three messages, still
\* holds messages of another round
C24_OtherRoundLeft ==
    /\ call.op = "DeleteMixedMessageByRound"
    /\ mixedMessages.IdTrack = 3
    /\ Cardinality(mixedMessages.RoundId) \in {1, 2}
    /\ mixedMessages.RoundIdCount[call.req] = 0

-----------------------------------------------------------------------------
(* C25, C26 *)

\* the filter bits a table holds for a recipient and an epoch
BitsOf(store, recipientId, epoch) ==
    {row.Filter : row \in FiltersOf(store, recipientId, epoch)}

\* the bitwise OR of two slices of one length
BitwiseOr(f, g) == [i \in 1..Len(f) |-> IF f[i] + g[i] > 0 THEN 1 ELSE 0]

\* the table after HandleBloomFilter for f and then for g
Both(store, c, f, g) ==
    upsertClientBloomFilter(
        upsertClientBloomFilter(store, validFilter(c.recipientId, f, c.roundId, c.epoch)),
        validFilter(c.recipientId, g, c.roundId, c.epoch))

\* C25: after HandleBloomFilter stored a filter f for (RecipientId, Epoch),
\* upserting f again leaves the stored bits as they are; and starting from
\* the table before the call, upserting f then a filter g of the same
\* length gives the same bits as upserting g then f, which, when no row
\* was stored, are the bitwise OR of f and g
C25_UpsertIdempotentCommutative ==
    [][ call'.op = "HandleBloomFilter"
        => LET c == call'.req
               f == c.filterBytes
               again == upsertClientBloomFilter(bloomFilters',
                            validFilter(c.recipientId, f, c.roundId, c.epoch))
           IN  /\ BitsOf(again, c.recipientId.Int64, c.epoch)
                    = BitsOf(bloomFilters', c.recipientId.Int64, c.epoch)
               /\ \A g \in {h \in Filters : Len(h) = Len(f)} :
                     /\ BitsOf(Both(bloomFilters, c, f, g), c.recipientId.Int64, c.epoch)
                          = BitsOf(Both(bloomFilters, c, g, f), c.recipientId.Int64, c.epoch)
                     /\ FiltersOf(bloomFilters, c.recipientId.Int64, c.epoch) = {} =>
                           BitsOf(Both(bloomFilters, c, f, g), c.recipientId.Int64, c.epoch)
                             = {BitwiseOr(f, g)} ]_vars

\* a filter with one bit set was upserted and the stored filter of the
\* same length has both bits set
C25_MergedBits ==
    /\ call.op = "HandleBloomFilter"
    /\ call.req.filterBytes = <<0, 1>>
    /\ BitsOf(bloomFilters, 1, 1) = {<<1, 1>>}

\* C26: HandleBloomFilter for round r leaves a row for (RecipientId,
\* Epoch) whose FirstRound is r when there was none, else the lesser of r
\* and the stored FirstRound, and whose FirstRound + RoundRange is r when
\* there was none, else the greater of r and the stored last round: over
\* any sequence of calls the row spans from the least to the greatest
\* round upserted
C26_RoundInterval ==
    [][ call'.op = "HandleBloomFilter"
        => LET c == call'.req
               before == FiltersOf(bloomFilters, c.recipientId.Int64, c.epoch)
               after == FiltersOf(bloomFilters', c.recipientId.Int64, c.epoch)
           IN  /\ Cardinality(after) = 1
               /\ \A new \in after :
                     /\ before = {} =>
                           new.FirstRound = c.roundId /\ new.RoundRange = 0
                     /\ \A old \in before :
                           /\ new.FirstRound =
                                IF c.roundId < old.FirstRound THEN c.roundId
                                ELSE old.FirstRound
                           /\ new.FirstRound + new.RoundRange =
                                IF c.roundId > old.FirstRound + old.RoundRange THEN c.roundId
                                ELSE old.FirstRound + old.RoundRange ]_vars

\* round 2 was upserted into a row that already spanned the rounds 1 to 3
C26_InsideInterval ==
    /\ call.op = "HandleBloomFilter"
    /\ call.req.roundId = 2
    /\ \E row \in FiltersOf(bloomFilters, 1, 1) : row.FirstRound = 1 /\ row.RoundRange = 2

-----------------------------------------------------------------------------
(* C27 *)

\* is the origin of a message, retyped as a node, in the topology of the
\* round its payload names
OriginInTopology(msg, instance) ==
    /\ msg.Payload.ok
    /\ instance[msg.Payload.RoundID] # NoRound
    /\ instance[msg.Payload.RoundID].Topology.ok
    /\ \E i \in DOMAIN instance[msg.Payload.RoundID].Topology.ids :
          LET node == instance[msg.Payload.RoundID].Topology.ids[i]
          IN  node.bytes = msg.Origin.bytes /\ node.type = "node"

\* C27: gossipVerify rejects a bloom message whose payload names a round
\* the instance does not know, and one whose origin, retyped as a node, is
\* not in the topology of that round; it accepts a message whose retyped
\* origin is in the topology of a known round and whose signature is the
\* origin's over the message
C27_GossipVerify ==
    [][ (call'.op = "gossipVerify" /\ call'.req.msg.Tag = "Bloom")
        => LET msg == call'.req.msg
               instance == call'.req.instance
           IN  /\ (msg.Payload.ok /\ instance[msg.Payload.RoundID] = NoRound)
                     => call'.err # NoErr
               /\ ~OriginInTopology(msg, instance) => call'.err # NoErr
               /\ ( /\ OriginInTopology(msg, instance)
                    /\ msg.Signature.signer = msg.Origin
                    /\ msg.Signature.Payload = msg.Payload )
                     => call'.err = NoErr ]_vars

\* a message was refused whose origin is in the topology of its round as a
\* gateway only
C27_GatewayInTopology ==
    /\ call.op = "gossipVerify"
    /\ call.err = "NotInRound"
    /\ call.req.instance[call.req.msg.Payload.RoundID].Topology.ids = <<call.req.msg.Origin>>
    /\ call.req.msg.Signature.signer = call.req.msg.Origin

-----------------------------------------------------------------------------
(* C28, C29 *)

\* the handler of an inbound bloom message returned
ReceiveReturned(c) ==
    /\ c.op = "gossipBloomFilterReceive"
    /\ c.route = "local"
    /\ c.err # "panic"

\* C28: when gossipBloomFilterReceive returns no error for a message of
\* round R, the table holds for every recipient of the message a filter
\* of the epoch of R's QUEUED timestamp that covers R, and R is in
\* knownRound; no step ever takes a round out of knownRound
C28_ReceiveUpsertsAll ==
    [][ /\ knownRound \subseteq knownRound'
        /\ (ReceiveReturned(call') /\ call'.err = NoErr)
             => LET payload == call'.req.msg.Payload
                    R == payload.RoundID
                IN  /\ R \in knownRound'
                    /\ \A i \in DOMAIN payload.RecipientIds :
                          \E row \in bloomFilters' :
                              /\ row.RecipientId = payload.RecipientIds[i].Int64
                              /\ row.Epoch = call'.req.instance[R].Timestamp \div epochDuration
                              /\ row.FirstRound <= R
                              /\ R <= row.FirstRound + row.RoundRange
                              /\ row.Filter[R] = 1 ]_vars

\* a message of round 1 for the recipients 1 and 2 was handled without
\* error after round 2 had been recorded
C28_TwoRecipients ==
    /\ ReceiveReturned(call)
    /\ call.err = NoErr
    /\ call.req.msg.Payload.RoundID = 1
    /\ {call.req.msg.Payload.RecipientIds[i].Int64 :
            i \in DOMAIN call.req.msg.Payload.RecipientIds} = {1, 2}
    /\ knownRound = {1, 2}
    /\ Cardinality(bloomFilters) = 3

\* C29: whenever gossipBloomFilterReceive returns, with no error, with the
\* error of a payload that does not unmarshal or with upsert errors, the
\* bloomFilterGossip mutex is not held
C29_LockReleased ==
    [][ ReceiveReturned(call') => ~bloomFilterGossip' ]_vars

-----------------------------------------------------------------------------
(* C30 *)

\* C30: a GossipBloom that sent the message returns no error when at least
\* one peer took it, and an error only when no peer did
C30_SuccessIfOnePeer ==
    [][ (call'.op = "GossipBloom" /\ call'.resp # Nil)
        => LET peers == call'.resp.peers
               accepted == \E i \in DOMAIN peers : peers[i] = "ok"
           IN  /\ accepted => call'.err = NoErr
               /\ call'.err # NoErr => ~accepted ]_vars

-----------------------------------------------------------------------------
(* C31 *)

-----------------------------------------------------------------------------
(* UnmixedMapBuffer: the buffer with one queue of outgoing slots *)

\* PopUnmixedMessages(minCnt, maxCnt) on the queue `slots`: the batch returned
\* (Nil for a nil batch) and the slots left. The batch popped from an empty
\* queue is read through its Slots field, so it is an empty batch and not
\* nil; a queue shorter than minCnt gives nil; otherwise the oldest slots
\* are taken, maxCnt of them at most.
PopUnmixed(slots, minCnt, maxCnt) ==
    IF Len(slots) = 0 THEN [batch |-> [Slots |-> <<>>], left |-> slots]
    ELSE IF Len(slots) < minCnt THEN [batch |-> Nil, left |-> slots]
    ELSE LET n == IF Len(slots) > maxCnt THEN maxCnt ELSE Len(slots)
         IN  [batch |-> [Slots |-> SubSeq(slots, 1, n)],
              left |-> SubSeq(slots, n + 1, Len(slots))]

\* LenUnmixed()
LenUnmixed == Len(outgoingMessages)

\* a slot is appended to the queue
AppendOutgoing(slot) ==
    /\ ~crashed
    /\ Len(outgoingMessages) < MaxQueue
    /\ outgoingMessages' = Append(outgoingMessages, slot)
    /\ sent' = NoSend
    /\ uploaded' = NoUpload
    /\ call' = Call("AddUnmixedMessage", slot, "", "local", Nil, NoErr, <<>>, 0)
    /\ UNCHANGED <<filterVars, receivers, clients, buckets, UnmixedBuffer, mixedMessages,
                   uploads, crashed>>

\* PopUnmixedMessages(minCnt, maxCnt)
PopUnmixedMessages(minCnt, maxCnt) ==
    /\ ~crashed
    /\ minCnt <= maxCnt
    /\ outgoingMessages' = PopUnmixed(outgoingMessages, minCnt, maxCnt).left
    /\ sent' = NoSend
    /\ uploaded' = NoUpload
    /\ call' = Call("PopUnmixedMessages", <<minCnt, maxCnt>>, "", "local",
                    PopUnmixed(outgoingMessages, minCnt, maxCnt).batch, NoErr, <<>>, 0)
    /\ UNCHANGED <<filterVars, receivers, clients, buckets, UnmixedBuffer, mixedMessages,
                   uploads, crashed>>

\* slots "a", "b" and "c" queue up and are popped with every minCnt <= maxCnt
NextQueue ==
    \/ \E slot \in {"a", "b", "c"} : AppendOutgoing(slot)
    \/ \E minCnt \in 0..MaxCount, maxCnt \in 1..MaxCount : PopUnmixedMessages(minCnt, maxCnt)

SpecQueue == Init /\ [][NextQueue]_vars

-----------------------------------------------------------------------------
(* C32 *)

\* C32: PopUnmixedMessages(minCount, maxCount) returns nil and leaves the
\* queue as it was whenever it holds fewer than minCount slots, an empty
\* queue included; otherwise it takes between minCount and maxCount slots
\* off the front, the oldest first, and LenUnmixed drops by their number.
C32_PopUnmixedMessages ==
    [][ call'.op = "PopUnmixedMessages" =>
          LET minCount == call'.req[1]
              maxCount == call'.req[2]
          IN  IF LenUnmixed < minCount
              THEN /\ call'.resp = Nil
                   /\ outgoingMessages' = outgoingMessages
              ELSE /\ call'.resp # Nil
                   /\ LET k == IF call'.resp = Nil THEN 0 ELSE Len(call'.resp.Slots)
                      IN  /\ minCount <= k
                          /\ k <= maxCount
                          /\ call'.resp.Slots = SubSeq(outgoingMessages, 1, k)
                          /\ outgoingMessages' = SubSeq(outgoingMessages, k + 1, LenUnmixed)
                          /\ LenUnmixed' = LenUnmixed - k
      ]_vars

-----------------------------------------------------------------------------
(* SpecRegister: u1 registers under two keys, with the client store        *)
(* working or failing, and sends slots under either key                    *)

NextRegister ==
    \/ \E k \in Keys, failing \in BOOLEAN :
          RequestClientKey(KeyRequest(NoTarget, "u1"),
                           [KeyEnv(k) EXCEPT !.upsertErr = failing])
    \/ \E msg \in GatewaySlots({"u1"}, Rounds, {NoTarget}, Keys, Salts) :
          PutMessage(msg, "ipW")

SpecRegister == Init /\ [][NextRegister]_vars

-----------------------------------------------------------------------------
(* C33 *)

\* C33: a RequestClientKey during which UpsertClient fails returns the
\* response signed by the gateway and no error, and leaves the client store
\* as it was, so that every slot of that client is afterwards authenticated
\* or rejected exactly as before the call.
C33_UpsertFailureSilent ==
    [][ \A k \in Keys :
          RequestClientKey(KeyRequest(NoTarget, "u1"),
                           [KeyEnv(k) EXCEPT !.upsertErr = TRUE]) =>
            /\ call'.err = NoErr
            /\ call'.resp.Signed
            /\ call'.resp.Error = NoErr
            /\ clients' = clients
            /\ \A msg \in GatewaySlots({"u1"}, Rounds, {NoTarget}, Keys, Salts) :
                  processPutMessage(msg)' = processPutMessage(msg)
      ]_vars

\* a registration has just returned the signed response and no error, and
\* the client store holds no key for u1: its UpsertClient failed
C33_KeptEarlierKey ==
    /\ call.op = "RequestClientKey"
    /\ call.err = NoErr
    /\ call.resp.Signed
    /\ clients["u1"] = NoKey

-----------------------------------------------------------------------------
(* SpecWait: batches arrive while the round is absent, early or ready, and *)
(* the round enters QUEUED, REALTIME or COMPLETED never, between GetRound   *)
(* and AddRoundEventChan, or after AddRoundEventChan                        *)

\* the event read from roundUpdateCh. The handler looks the round up once,
\* before it subscribes, and afterwards reads the channel only: an update
\* that came before AddRoundEventChan registered the channel is not
\* delivered on it, and the wait ends with the timeout.
RoundEventOf(arrives) ==
    IF arrives = "after"
    THEN [TimedOut |-> FALSE, RoundInfo |-> TRUE]
    ELSE [TimedOut |-> TRUE, RoundInfo |-> FALSE]

\* the environment of BatchEnv with the round found as `found` and entering
\* a target state at `arrives`
WaitEnv(r, found, arrives) ==
    [round |-> found, AddressSpaceSize |-> r, Timestamp |-> 1,
     errGossip |-> NoErr, errFilters |-> NoErr, insertErr |-> FALSE,
     roundEvent |-> RoundEventOf(arrives), DisableGossip |-> FALSE,
     NotificationAddress |-> TRUE, botHost |-> TRUE, arrives |-> arrives]

NextWait ==
    \/ \E found \in {"nil", "early", "ready"}, arrives \in {"never", "window", "after"},
          msgs \in SeqsUpTo(MixedSlots, BatchSize) :
          ProcessCompletedBatch(msgs, 2, WaitEnv(2, found, arrives))
    \/ \E r \in Rounds : DeleteMixedMessageByRound(r)

SpecWait == Init /\ [][NextWait]_vars

-----------------------------------------------------------------------------
(* C34 *)

-----------------------------------------------------------------------------
(* gossipBloomFilterReceive step by step: two inbound bloom messages are   *)
(* handled side by side. receivers[h] is the place handler h has reached:  *)
(* "idle", "locked" (the mutex taken), "upserting" (the goroutines started *)
(* and wg.Wait under way), "checked" (the round denoted in knownRound),    *)
(* "returned".                                                             *)

\* a Lock() that does not wait for the holder
CanLockAlways(held) == TRUE

\* bloomFilterGossip.Lock() goes through when nobody holds the mutex
CanLock(held) == ~held

\* the network instance of the handlers: both rounds known
KnownInstance ==
    [r \in Rounds |-> [Topology |-> [ok |-> TRUE, ids |-> <<ID("gwA", "node")>>],
                       Timestamp |-> IF r = 1 THEN 1 ELSE 5]]

\* what a step of handler h leaves besides the variables it works on
ReceiveStep(op, h) ==
    /\ ~crashed
    /\ sent' = NoSend
    /\ uploaded' = NoUpload
    /\ call' = Call(op, [handler |-> h], "", "local", Nil, NoErr, <<>>, 0)
    /\ UNCHANGED <<outgoingMessages, clients, buckets, UnmixedBuffer, mixedMessages,
                   uploads, rounds>>

\* handler h is called with a message and takes the mutex
receiveLock(h, payload, fails) ==
    /\ receivers[h].pc = "idle"
    /\ CanLock(bloomFilterGossip)
    /\ bloomFilterGossip' = TRUE
    /\ receivers' = [receivers EXCEPT ![h] =
                        [pc |-> "locked", payload |-> payload, fails |-> fails]]
    /\ ReceiveStep("receiveLock", h)
    /\ UNCHANGED <<bloomFilters, knownRound, crashed>>

\* the payload is unmarshalled: an error returns at once, the mutex held;
\* otherwise one goroutine is started for each recipient, after wg.Add(1)
receiveUnmarshal(h) ==
    /\ receivers[h].pc = "locked"
    /\ LET r == receivers[h]
       IN  receivers' = [receivers EXCEPT ![h] =
               IF ~r.payload.ok
               THEN [pc |-> "returned", err |-> "Unmarshal"]
               ELSE [pc |-> "upserting", payload |-> r.payload, fails |-> r.fails,
                     pending |-> DOMAIN r.payload.RecipientIds,
                     wg |-> Len(r.payload.RecipientIds), errs |-> 0]]
    /\ ReceiveStep("receiveUnmarshal", h)
    /\ UNCHANGED <<bloomFilters, knownRound, bloomFilterGossip, crashed>>

\* errs = append(errs, ...) of a goroutine, unsynchronised: next to the
\* append of another goroutine it may be lost or crash the process
appendErr(h, failed, race) ==
    /\ race \in (IF failed /\ receivers[h].errs >= 1 THEN {"none", "lost", "crash"}
                 ELSE {"none"})
    /\ crashed' = (race = "crash")

\* errs after the goroutine ran
appended(errs, failed, race) == IF failed /\ race = "none" THEN errs + 1 ELSE errs

\* the goroutine of the i-th recipient runs: an id that does not unmarshal
\* appends an error and returns without wg.Done; otherwise UpsertFilter
\* runs, its error is appended, and wg.Done is called
receiveWorker(h, i, race) ==
    /\ receivers[h].pc = "upserting"
    /\ i \in receivers[h].pending
    /\ LET r == receivers[h]
           recipient == r.payload.RecipientIds[i]
           done == UpsertFilter(bloomFilters, [Int64 |-> recipient.Int64],
                                r.payload.RoundID, KnownInstance, i \in r.fails)
       IN  IF ~recipient.ok
           THEN /\ appendErr(h, TRUE, race)
                /\ receivers' = [receivers EXCEPT ![h].pending = @ \ {i},
                                                  ![h].errs = appended(@, TRUE, race)]
                /\ UNCHANGED bloomFilters
           ELSE /\ appendErr(h, done.err # NoErr, race)
                /\ receivers' = [receivers EXCEPT
                                    ![h].pending = @ \ {i},
                                    ![h].errs = appended(@, done.err # NoErr, race),
                                    ![h].wg = @ - 1]
                /\ bloomFilters' = done.store
    /\ ReceiveStep("receiveWorker", h)
    /\ UNCHANGED <<knownRound, bloomFilterGossip>>

\* wg.Wait returns once every goroutine called wg.Done; the round is
\* denoted in knownRound
receiveCheck(h) ==
    /\ receivers[h].pc = "upserting"
    /\ receivers[h].wg = 0
    /\ knownRound' = knownRound \cup {receivers[h].payload.RoundID}
    /\ receivers' = [receivers EXCEPT ![h].pc = "checked"]
    /\ ReceiveStep("receiveCheck", h)
    /\ UNCHANGED <<bloomFilters, bloomFilterGossip, crashed>>

\* the mutex is released and the errors of the goroutines are returned
receiveUnlock(h) ==
    /\ receivers[h].pc = "checked"
    /\ bloomFilterGossip' = FALSE
    /\ receivers' = [receivers EXCEPT ![h] =
                        [pc |-> "returned", err |-> errReturn(receivers[h].errs)]]
    /\ ReceiveStep("receiveUnlock", h)
    /\ UNCHANGED <<bloomFilters, knownRound, crashed>>

\* each handler receives one of the payloads, the store failing for no
\* recipient or for the first
NextReceive ==
    \/ \E h \in Handlers, payload \in Payloads, fails \in {{}, {1}} :
          receiveLock(h, payload, fails)
    \/ \E h \in Handlers : receiveUnmarshal(h)
    \/ \E h \in Handlers, i \in 1..MaxRecipients, race \in {"none", "lost", "crash"} :
          receiveWorker(h, i, race)
    \/ \E h \in Handlers : receiveCheck(h)
    \/ \E h \in Handlers : receiveUnlock(h)

SpecReceive == Init /\ [][NextReceive]_vars

-----------------------------------------------------------------------------
(* C35 *)

\* the handlers other than h that hold the mutex and have not returned
InCriticalSection(h) ==
    {g \in Handlers \ {h} : receivers[g].pc \in {"locked", "upserting", "checked"}}

\* C35: the filter upserts and the knownRound update of one inbound bloom
\* message never interleave with those of another: while a handler upserts a
\* filter or denotes its round, no other handler is between taking the mutex
\* and returning.
C35_HandlersSerialized ==
    [][ call'.op \in {"receiveWorker", "receiveCheck"} =>
            InCriticalSection(call'.req.handler) = {} ]_vars

\* the second handler denotes its round after the first one upserted its
\* filters, denoted its round and returned
C35_OneAfterTheOther ==
    /\ call.op = "receiveCheck"
    /\ call.req.handler = 2
    /\ receivers[1].pc = "returned"
    /\ receivers[1].err = NoErr
    /\ knownRound = {1, 2}
    /\ bloomFilters # NoFilters

-----------------------------------------------------------------------------
(* C36 *)

\* C36: when k of the filter upserts of one inbound bloom message fail, the
\* error the handler returns is made of all k failures: none is lost through
\* the concurrent appends to errs.
C36_AllFailuresReturned ==
    [][ (/\ call'.op = "gossipBloomFilterReceive"
         /\ call'.route = "local"
         /\ call'.req.msg.Payload.ok)
        => /\ call'.err # "panic"
           /\ call'.resp.errs =
                 upsertFrom([store |-> bloomFilters, notDone |-> 0, failed |-> 0],
                            call'.req.msg.Payload.RecipientIds,
                            call'.req.msg.Payload.RoundID,
                            call'.req.instance, call'.req.fails, 1).failed ]_vars

-----------------------------------------------------------------------------
(* The goroutines of ProcessCompletedBatch and their failure logs *)

\* the round is found at once or arrives during the wait; GossipBloom and
\* UpsertFilters work or fail
TaskEnv(found, errGossip, errFilters) ==
    [BatchEnv(2) EXCEPT !.round = found, !.errGossip = errGossip,
                        !.errFilters = errFilters]

NextTasks ==
    \/ \E found \in {"nil", "early", "ready"}, errGossip \in {NoErr, "Gossip"},
          errFilters \in {NoErr, "Upsert"}, msgs \in SeqsUpTo(MixedSlots, BatchSize) :
          ProcessCompletedBatch(msgs, 2, TaskEnv(found, errGossip, errFilters))
    \/ \E r \in Rounds : DeleteMixedMessageByRound(r)

SpecTasks == Init /\ [][NextTasks]_vars

-----------------------------------------------------------------------------
(* C37 *)

\* the tasks of which the call logged a failure
Logged(resp) == {l.task : l \in resp.logs}

\* C37: each of the two background tasks of ProcessCompletedBatch logs a
\* failure if and only if it returned an error itself, whatever the other
\* task and the round lookup did; the call returns no error either way.
C37_TaskLogsOwnFailure ==
    [][ (call'.op = "ProcessCompletedBatch" /\ call'.resp.GossipBloom # Nil)
        => /\ ("GossipBloom" \in Logged(call.resp)') <=> (call'.req.env.errGossip # NoErr)
           /\ ("UpsertFilters" \in Logged(call.resp)') <=> (call'.req.env.errFilters # NoErr)
           /\ call'.err = NoErr ]_vars

-----------------------------------------------------------------------------
(* C38 *)

\* C38: when the store holds messages of round R but none for recipient X,
\* RequestMessages(X, R) answers HasRound = true with an empty message list
\* and no error.
C38_OursButEmpty ==
    [][ (/\ call'.op = "RequestMessages"
         /\ call'.route = "local"
         /\ countMixedMessagesByRound(call'.req.RoundID) > 0
         /\ getMixedMessages(call'.req.ClientID, call'.req.RoundID) = {})
        => /\ call'.resp.HasRound
           /\ call'.resp.Messages = <<>>
           /\ call'.err = NoErr ]_vars

-----------------------------------------------------------------------------
(* C39 *)

\* the goroutines of a handler are scheduled, and a handler that can go on
\* does
FairReceive ==
    \A h \in Handlers :
        /\ WF_vars(receiveUnmarshal(h))
        /\ WF_vars(\E i \in 1..MaxRecipients, race \in {"none", "lost", "crash"} :
                       receiveWorker(h, i, race))
        /\ WF_vars(receiveCheck(h))
        /\ WF_vars(receiveUnlock(h))

SpecReceiveFair == SpecReceive /\ FairReceive

\* C39: the inbound bloom handler terminates for every payload: a handler
\* that took the lock returns, also when recipient ids of the payload do not
\* unmarshal.
C39_HandlerTerminates ==
    \A h \in Handlers : (receivers[h].pc = "locked") ~> (receivers[h].pc = "returned")

-----------------------------------------------------------------------------
(* ProcessCompletedBatch with gossip disabled, and the UpsertFilters *)
(* goroutine it starts otherwise                                      *)

\* UpsertFilters(recipients, roundID): UpsertFilter for each recipient
RECURSIVE UpsertFilters(_, _, _)
UpsertFilters(store, recipients, roundID) ==
    IF recipients = {} THEN store
    ELSE LET recipient == CHOOSE x \in recipients : TRUE
         IN  UpsertFilters(UpsertFilter(store, recipient, roundID, KnownInstance, FALSE).store,
                           recipients \ {recipient}, roundID)

\* the goroutine started by the ProcessCompletedBatch call just made runs
UpsertFiltersTask ==
    /\ ~crashed
    /\ call.op = "ProcessCompletedBatch"
    /\ call.resp.UpsertFilters # Nil
    /\ bloomFilters' = UpsertFilters(bloomFilters, call.resp.UpsertFilters.recipients,
                                     call.resp.UpsertFilters.roundID)
    /\ call' = Call("UpsertFilters", call.resp.UpsertFilters, "", "local", Nil, NoErr, <<>>, 0)
    /\ sent' = NoSend
    /\ uploaded' = NoUpload
    /\ UNCHANGED <<stepVars, clients, buckets, UnmixedBuffer, mixedMessages, uploads, crashed,
                   rounds, knownRound, bloomFilterGossip>>

\* the batches of round 1 are processed with gossip disabled, those of round
\* 2 with gossip enabled; the notification bot is named or not; both rounds
\* have an address space of one bit
NextDisabled ==
    \/ \E r \in Rounds, bot \in BOOLEAN, msgs \in SeqsUpTo(MixedSlots, BatchSize) :
          ProcessCompletedBatch(msgs, r,
              [BatchEnv(1) EXCEPT !.Timestamp = KnownInstance[r].Timestamp,
                                  !.DisableGossip = (r = 1),
                                  !.NotificationAddress = bot])
    \/ UpsertFiltersTask
    \/ \E r \in Rounds : DeleteMixedMessageByRound(r)

SpecDisabled == Init /\ [][NextDisabled]_vars

-----------------------------------------------------------------------------
(* C40 *)

\* C40: with gossip disabled, ProcessCompletedBatch still stores the mixed
\* messages of the round and sends the notifications, but starts neither
\* GossipBloom nor UpsertFilters, so that no bloom filter is ever created for
\* the recipients of that round (round 1, the one processed with gossip
\* disabled).
C40_DisabledGossip ==
    [][ /\ (/\ call'.op = "ProcessCompletedBatch"
            /\ Len(call'.req.msgs) > 0
            /\ call'.req.env.DisableGossip)
           => /\ call'.err = NoErr
              /\ mixedMessages' =
                    InsertMixedMessages(mixedMessages, call'.resp.clientRound.Messages).store
              /\ call'.resp.SendNotificationBatch # Nil <=> call'.req.env.NotificationAddress
              /\ call'.resp.GossipBloom = Nil
              /\ call'.resp.UpsertFilters = Nil
              /\ call'.resp.logs = {}
              /\ bloomFilters' = bloomFilters
        /\ call'.op = "UpsertFilters" => call'.req.roundID # 1
        /\ \A f \in bloomFilters' : f.FirstRound # 1 ]_vars

\* messages of round 1 were stored for a recipient and notified with gossip
\* disabled, while the store holds filters of round 2 only
C40_StoredWithoutFilter ==
    /\ call.op = "ProcessCompletedBatch"
    /\ call.req.env.DisableGossip
    /\ call.resp.recipients # {}
    /\ call.resp.SendNotificationBatch # Nil
    /\ countMixedMessagesByRound(1) > 0
    /\ bloomFilters # {}
    /\ \A f \in bloomFilters : f.FirstRound = 2

====
